---- MODULE Spec2Model ----
(***************************************************************************)
(* Stellar Voyage (Three.js edition): the Game session, its Player,        *)
(* Enemy, Obstacle and Projectile entities and the CollisionDetector.      *)
(*                                                                         *)
(* Numbers are fixed point.  Lengths are in tenths of a world unit, times  *)
(* in milliseconds, velocities in tenths of a unit per second, the         *)
(* difficulty multiplier in thousandths, direction vectors in thousandths. *)
(* JavaScript numbers are IEEE doubles; every product below is divided     *)
(* back to its unit with truncation toward zero.                           *)
(*                                                                         *)
(* The player's rotation keys ('a', 'd', arrows) are not among the keys    *)
(* the model presses, so mesh.rotation.z stays 0 and the ship's heading    *)
(* (sin 0, cos 0) is the +y axis throughout.                               *)
(***************************************************************************)
EXTENDS Integers, Sequences, FiniteSets, TLC

VARIABLES
  gameState,             \* Game.gameState: "menu", "playing", "gameOver"
  score,                 \* Game.score
  lives,                 \* Game.lives
  level,                 \* Game.level
  difficulty,            \* Game.difficulty, thousandths
  player,                \* Game.player: null or a Player record
  enemies,               \* Game.enemies: sequence of Enemy records
  obstacles,             \* Game.obstacles: sequence of Obstacle records
  enemySpawnTimer,       \* ms
  enemySpawnInterval,    \* ms
  obstacleSpawnTimer,    \* ms
  obstacleSpawnInterval, \* ms
  difficultyTimer,       \* ms
  scene,                 \* ids of the meshes currently added to the THREE.Scene
  nextId,                \* identity of the next object constructed
  collisions,            \* the batch returned by the last checkAllCollisions call
  ticks,                 \* number of ticks Game.update has simulated so far
  starts,                \* number of Game.start calls made so far
  shots,                 \* number of projectiles fired so far
  keyEvents,             \* number of key events delivered so far
  lastOp,                \* the operation called last; an update call that took
                         \* an early return is recorded as "updateReturned"
  edition,               \* the program that runs: "three" (Three.js), "babylon"
                         \* (Babylon.js edition), "babylonjs" (Babylon.js 2-D)
  dom,                   \* the page: start and game-over screens, HUD fields
  mobileControls,        \* main.js mobileControls: null or a MobileControls record
  controls,              \* Babylon: keys held per the keys map, isShooting, lastShootTime
  lasers,                \* Babylon: the lasers / projectiles array
  now                    \* Date.now(), ms

vars == <<gameState, score, lives, level, difficulty, player, enemies, obstacles,
          enemySpawnTimer, enemySpawnInterval, obstacleSpawnTimer,
          obstacleSpawnInterval, difficultyTimer, scene, nextId, collisions,
          ticks, starts, shots, keyEvents, lastOp, edition, dom, mobileControls,
          controls, lasers, now>>

\* the page around the Game and the state of the Babylon editions
pageVars == <<edition, dom, mobileControls, controls, lasers, now>>

----------------------------------------------------------------------------
(* Bounds of the model *)

\* ticks simulated in one behaviour
MaxTicks == 18
\* Game.start calls explored in one behaviour
MaxStarts == 2
\* projectiles fired in one behaviour
MaxShots == 3
\* key events delivered in one behaviour
MaxKeyEvents == 5
\* the tick from which the restart of a running game is explored
RestartFrom == 16
\* enemies handed to the collision detector in one call
MaxDetectorEnemies == 3
\* entities of each kind present when handleCollisions runs
MaxContactEntities == 2
\* frames rendered in one behaviour of a Babylon program
MaxFrames == 3

----------------------------------------------------------------------------
(* Program constants *)

INITIAL_LIVES == 3
ENEMY_SCORE == 100
OBSTACLE_SCORE == 10
ENEMY_HEALTH == 2
ENEMY_SPEED == 80
BEHAVIOR_CHANGE_INTERVAL == 3000
PROJECTILE_SPEED == 300
PROJECTILE_LIFETIME == 5000
PROJECTILE_MAX_DISTANCE == 5000
OBSTACLE_MAX_DISTANCE == 6000
PLAYER_THRUST == 300
FRICTION_PERCENT == 92
SHOOT_COOLDOWN_MAX == 200
SPAWN_OFFSET == 20
BOUND_X == 500
BOUND_Y == 350
BOUND_Z == 200
PLAYER_RADIUS == 15
PROJECTILE_RADIUS == 3
ENEMY_RADIUS == 12
SPAWN_RADIUS == 400
SPAWN_Z == 250
ENEMY_SPAWN_INTERVAL == 2000
OBSTACLE_SPAWN_INTERVAL == 1500
DIFFICULTY_INCREASE_INTERVAL == 30000
DIFFICULTY_STEP == 100
ENEMY_INTERVAL_FLOOR == 800
OBSTACLE_INTERVAL_FLOOR == 500
DirScale == 1000

----------------------------------------------------------------------------
(* Fixed-point and vector helpers *)

\* integer division truncating toward zero, as a double product rounds symmetrically
TruncDiv(a, b) == IF a >= 0 THEN a \div b ELSE 0 - ((0 - a) \div b)

Max(a, b) == IF a >= b THEN a ELSE b

Min(a, b) == IF a <= b THEN a ELSE b

Vec(x, y, z) == [x |-> x, y |-> y, z |-> z]

ZeroVec == Vec(0, 0, 0)

\* p + v * k / d, componentwise
Advance(p, v, k, d) ==
  Vec(p.x + TruncDiv(v.x * k, d), p.y + TruncDiv(v.y * k, d), p.z + TruncDiv(v.z * k, d))

RECURSIVE SqrtSearch(_, _, _)
SqrtSearch(n, lo, hi) ==
  IF lo >= hi THEN lo
  ELSE LET mid == (lo + hi + 1) \div 2
       IN IF mid * mid <= n THEN SqrtSearch(n, mid, hi) ELSE SqrtSearch(n, lo, mid - 1)

\* floor of Math.sqrt(n)
Sqrt(n) == SqrtSearch(n, 0, 46340)

SquaredNorm(v) == v.x * v.x + v.y * v.y + v.z * v.z

\* utils.distance: floor of the Euclidean distance
distance(p1, p2) == Sqrt(SquaredNorm(Vec(p1.x - p2.x, p1.y - p2.y, p1.z - p2.z)))

\* a comparison that also accepts a distance equal to r
CloserThan_orEqual(p1, p2, r) ==
  SquaredNorm(Vec(p1.x - p2.x, p1.y - p2.y, p1.z - p2.z)) <= r * r

\* dist < r for the real distance and an integer r (floor(d) < r <=> d < r)
CloserThan(p1, p2, r) == SquaredNorm(Vec(p1.x - p2.x, p1.y - p2.y, p1.z - p2.z)) < r * r

\* dist > r for the real distance and an integer r
FartherThan(p1, p2, r) == SquaredNorm(Vec(p1.x - p2.x, p1.y - p2.y, p1.z - p2.z)) > r * r

\* utils.getDirection: unit vector from p1 to p2, in thousandths
getDirection(p1, p2) ==
  LET d == Vec(p2.x - p1.x, p2.y - p1.y, p2.z - p1.z)
      dist == distance(p1, p2)
  IN IF dist = 0 THEN ZeroVec
     ELSE Vec(TruncDiv(d.x * DirScale, dist), TruncDiv(d.y * DirScale, dist),
              TruncDiv(d.z * DirScale, dist))

\* the indices n, n-1, ..., 1: the order of a reverse for-loop over an array of length n
ReverseIndices(n) == [k \in 1..n |-> n + 1 - k]

\* the elements of a sequence as a set
Range(s) == {s[i] : i \in DOMAIN s}

\* all sequences over S of length at most n
SeqsUpTo(S, n) == UNION {[1..k -> S] : k \in 0..n}

\* Array.prototype.splice(index): without a count it removes the whole tail
Splice_tail(s, index) == SubSeq(s, 1, index - 1)

\* Array.prototype.splice(index, 1); indices are 1-based in the model
Splice(s, index) == [k \in 1..(Len(s) - 1) |-> IF k < index THEN s[k] ELSE s[k + 1]]

\* Array.from(set).sort((a, b) => b - a)
RECURSIVE SortDescending(_)
SortDescending(S) ==
  IF S = {} THEN <<>>
  ELSE LET m == CHOOSE a \in S : \A b \in S : b <= a
       IN <<m>> \o SortDescending(S \ {m})

\* indices.forEach(index => { if (array[index]) array.splice(index, 1) })
RECURSIVE SpliceEach(_, _)
SpliceEach(s, indices) ==
  IF indices = <<>> THEN s
  ELSE LET index == Head(indices)
       IN SpliceEach(IF index \in DOMAIN s THEN Splice(s, index) ELSE s, Tail(indices))

----------------------------------------------------------------------------
(* Projectile *)

Projectile(id, position, direction) ==
  [id |-> id,
   position |-> position,
   velocity |-> Vec(TruncDiv(direction.x * PROJECTILE_SPEED, DirScale),
                    TruncDiv(direction.y * PROJECTILE_SPEED, DirScale),
                    TruncDiv(direction.z * PROJECTILE_SPEED, DirScale)),
   age |-> 0]

Projectile_update(p, deltaTime) ==
  [p EXCEPT !.position = Advance(p.position, p.velocity, deltaTime, 1000),
            !.age = p.age + deltaTime]

Projectile_isAlive(p) == p.age < PROJECTILE_LIFETIME

Projectile_isOffScreen(p) == FartherThan(p.position, ZeroVec, PROJECTILE_MAX_DISTANCE)

----------------------------------------------------------------------------
(* Enemy *)

Behaviors == {"chase", "evade"}

Enemy(id, position) ==
  [id |-> id, position |-> position, health |-> ENEMY_HEALTH, maxHealth |-> ENEMY_HEALTH,
   behaviorTimer |-> 0, currentBehavior |-> "chase"]

\* rnd is the behaviour Math.random() picks when the behaviour timer expires
Enemy_update(e, deltaTime, playerPos, diff, rnd) ==
  LET timer == e.behaviorTimer + deltaTime
      expired == timer > BEHAVIOR_CHANGE_INTERVAL
      behavior == IF expired THEN rnd ELSE e.currentBehavior
      moveDirection == IF behavior = "chase"
                       THEN getDirection(e.position, playerPos)
                       ELSE getDirection(playerPos, e.position)
      speed == TruncDiv(ENEMY_SPEED * diff, 1000)
      step == TruncDiv(speed * deltaTime, 1000)
  IN [e EXCEPT !.behaviorTimer = IF expired THEN 0 ELSE timer,
               !.currentBehavior = behavior,
               !.position = Advance(e.position, moveDirection, step, DirScale)]

\* a takeDamage that adds the damage to the health
Enemy_takeDamage_adds(e, damage) == [e EXCEPT !.health = e.health + damage]

\* Enemy.takeDamage
Enemy_takeDamage(e, damage) == [e EXCEPT !.health = e.health - damage]

Enemy_isAlive(e) == e.health > 0

----------------------------------------------------------------------------
(* Obstacle *)

Obstacle(id, position, size, velocity) ==
  [id |-> id, position |-> position, size |-> size, velocity |-> velocity]

Obstacle_update(o, deltaTime) ==
  [o EXCEPT !.position = Advance(o.position, o.velocity, deltaTime, 1000)]

Obstacle_isOffScreen(o) == FartherThan(o.position, ZeroVec, OBSTACLE_MAX_DISTANCE)

\* size * 1.5
Obstacle_getRadius(o) == TruncDiv(o.size * 15, 10)

----------------------------------------------------------------------------
(* Player *)

null == [null |-> TRUE]

Player(id) ==
  [id |-> id, position |-> ZeroVec, velocity |-> ZeroVec, keys |-> {},
   shootCooldown |-> 0, projectiles |-> <<>>]

Player_onKeyDown(p, key) == [p EXCEPT !.keys = p.keys \cup {key}]

Player_onKeyUp(p, key) == [p EXCEPT !.keys = p.keys \ {key}]

\* the heading (sin angle, cos angle, 0) at mesh.rotation.z = 0
Heading == Vec(0, DirScale, 0)

\* an updateProjectiles that moves and ages the projectiles and removes none
Player_updateProjectiles_keepsAll(projectiles, deltaTime) ==
  [i \in DOMAIN projectiles |-> Projectile_update(projectiles[i], deltaTime)]

\* the projectiles after the reverse loop: each updated, the dead and off-screen spliced out
Player_updateProjectiles(projectiles, deltaTime) ==
  LET moved == [i \in DOMAIN projectiles |-> Projectile_update(projectiles[i], deltaTime)]
  IN SelectSeq(moved, LAMBDA q : ~(~Projectile_isAlive(q) \/ Projectile_isOffScreen(q)))

\* a position left where the integration put it
clampPosition_unbounded(moved) == moved

\* the boundary constraints of Player.update
clampPosition(moved) ==
  Vec(Max(0 - BOUND_X, Min(BOUND_X, moved.x)),
      Max(0 - BOUND_Y, Min(BOUND_Y, moved.y)),
      Max(0 - BOUND_Z, Min(BOUND_Z, moved.z)))

Player_update(p, deltaTime) ==
  LET dv == TruncDiv(PLAYER_THRUST * deltaTime, 1000)
      vy1 == p.velocity.y
             + (IF "w" \in p.keys THEN TruncDiv(Heading.y * dv, DirScale) ELSE 0)
             - (IF "s" \in p.keys THEN TruncDiv(Heading.y * dv, DirScale) ELSE 0)
      vx1 == p.velocity.x
             + (IF "w" \in p.keys THEN TruncDiv(Heading.x * dv, DirScale) ELSE 0)
             - (IF "s" \in p.keys THEN TruncDiv(Heading.x * dv, DirScale) ELSE 0)
      vz1 == p.velocity.z
             - (IF "q" \in p.keys THEN dv ELSE 0)
             + (IF "e" \in p.keys THEN dv ELSE 0)
      v == Vec(TruncDiv(vx1 * FRICTION_PERCENT, 100),
               TruncDiv(vy1 * FRICTION_PERCENT, 100),
               TruncDiv(vz1 * FRICTION_PERCENT, 100))
      moved == Advance(p.position, v, deltaTime, 1000)
      clamped == clampPosition(moved)
  IN [p EXCEPT !.velocity = v,
               !.position = clamped,
               !.shootCooldown = IF p.shootCooldown > 0 THEN p.shootCooldown - deltaTime
                                 ELSE p.shootCooldown,
               !.projectiles = Player_updateProjectiles(p.projectiles, deltaTime)]

\* a shoot that ignores the cooldown
Player_shoot_always(p, id) ==
  [p EXCEPT !.projectiles =
              Append(p.projectiles,
                     Projectile(id, Advance(p.position, Vec(0, DirScale, 0), SPAWN_OFFSET,
                                            DirScale),
                                Vec(0, DirScale, 0))),
            !.shootCooldown = SHOOT_COOLDOWN_MAX]

\* id is the identity of the Projectile constructed when the cooldown allows the shot
Player_shoot(p, id) ==
  IF p.shootCooldown > 0 THEN p
  ELSE LET spawnPosition == Advance(p.position, Heading, SPAWN_OFFSET, DirScale)
       IN [p EXCEPT !.projectiles = Append(p.projectiles, Projectile(id, spawnPosition, Heading)),
                    !.shootCooldown = SHOOT_COOLDOWN_MAX]

\* a destroy that removes the player's own mesh and leaves its projectiles' meshes
Player_destroy_shipOnly(p) == {p.id}

\* Player.destroy removes the meshes of the player and of all its projectiles
Player_destroy(p) == {p.id} \cup {q.id : q \in Range(p.projectiles)}

----------------------------------------------------------------------------
(* CollisionDetector *)

checkProjectileEnemyCollision(projectile, enemy) ==
  CloserThan(projectile.position, enemy.position, PROJECTILE_RADIUS + ENEMY_RADIUS)

checkPlayerEnemyCollision(p, enemy) ==
  CloserThan(p.position, enemy.position, PLAYER_RADIUS + ENEMY_RADIUS)

checkPlayerObstacleCollision(p, obstacle) ==
  CloserThan(p.position, obstacle.position, PLAYER_RADIUS + Obstacle_getRadius(obstacle))

checkProjectileObstacleCollision(projectile, obstacle) ==
  CloserThan(projectile.position, obstacle.position,
             PROJECTILE_RADIUS + Obstacle_getRadius(obstacle))

\* the pairs <<i, j>> in the order of two nested reverse loops, i over n..1, j over m..1
PairsDescending(n, m) ==
  [k \in 1..(n * m) |-> <<n - ((k - 1) \div m), m - ((k - 1) % m)>>]

EmptyCollisions ==
  [projectileEnemyHits |-> <<>>, projectileObstacleHits |-> <<>>,
   playerEnemyCollisions |-> <<>>, playerObstacleCollisions |-> <<>>]

\* object references in the hit records are the objects' ids; indices are 1-based
checkAllCollisions(p, es, os) ==
  LET ps == p.projectiles
      peHits == SelectSeq(PairsDescending(Len(ps), Len(es)),
                          LAMBDA h : checkProjectileEnemyCollision(ps[h[1]], es[h[2]]))
      poHits == SelectSeq(PairsDescending(Len(ps), Len(os)),
                          LAMBDA h : checkProjectileObstacleCollision(ps[h[1]], os[h[2]]))
      plE == SelectSeq(ReverseIndices(Len(es)), LAMBDA i : checkPlayerEnemyCollision(p, es[i]))
      plO == SelectSeq(ReverseIndices(Len(os)),
                       LAMBDA i : checkPlayerObstacleCollision(p, os[i]))
  IN [projectileEnemyHits |->
        [k \in DOMAIN peHits |->
           [projectile |-> ps[peHits[k][1]].id, projectileIndex |-> peHits[k][1],
            enemy |-> es[peHits[k][2]].id, enemyIndex |-> peHits[k][2]]],
      projectileObstacleHits |->
        [k \in DOMAIN poHits |->
           [projectile |-> ps[poHits[k][1]].id, projectileIndex |-> poHits[k][1],
            obstacle |-> os[poHits[k][2]].id, obstacleIndex |-> poHits[k][2]]],
      playerEnemyCollisions |->
        [k \in DOMAIN plE |-> [enemy |-> es[plE[k]].id, enemyIndex |-> plE[k]]],
      playerObstacleCollisions |->
        [k \in DOMAIN plO |-> [obstacle |-> os[plO[k]].id, obstacleIndex |-> plO[k]]]]

----------------------------------------------------------------------------
(* Game *)

\* number of records of a hit list that name index i under field f
HitsOn(hits, f, i) == Cardinality({k \in DOMAIN hits : hits[k][f] = i})

\* a life count that only the enemies lower
livesAfter_enemiesOnly(lv, c) == lv - Len(c.playerEnemyCollisions)

\* a life count that is floored at 0
livesAfter_floored(lv, c) ==
  Max(0, lv - Len(c.playerEnemyCollisions) - Len(c.playerObstacleCollisions))

\* this.lives -= 1 for each player-enemy and each player-obstacle record
livesAfter(lv, c) == lv - Len(c.playerEnemyCollisions) - Len(c.playerObstacleCollisions)

\* Game.handleCollisions on the session fields it reads and writes
handleCollisions(p, es, os, sc, lv) ==
  LET c == checkAllCollisions(p, es, os)
      \* hit.enemy.takeDamage(1) once per projectile-enemy hit record
      damaged == [j \in DOMAIN es |->
                    Enemy_takeDamage(es[j], HitsOn(c.projectileEnemyHits, "enemyIndex", j))]
      projectileIndicesToRemove ==
        {c.projectileEnemyHits[k].projectileIndex : k \in DOMAIN c.projectileEnemyHits}
        \cup {c.projectileObstacleHits[k].projectileIndex : k \in DOMAIN c.projectileObstacleHits}
      obstacleIndicesToRemove ==
        {c.projectileObstacleHits[k].obstacleIndex : k \in DOMAIN c.projectileObstacleHits}
      keptProjectiles == SpliceEach(p.projectiles, SortDescending(projectileIndicesToRemove))
      keptObstacles == SpliceEach(os, SortDescending(obstacleIndicesToRemove))
  IN [player |-> [p EXCEPT !.projectiles = keptProjectiles],
      enemies |-> damaged,
      obstacles |-> keptObstacles,
      score |-> sc + OBSTACLE_SCORE * Len(c.projectileObstacleHits),
      lives |-> livesAfter(lv, c),
      destroyed |-> {c.projectileEnemyHits[k].projectile : k \in DOMAIN c.projectileEnemyHits}
                    \cup {p.projectiles[i].id : i \in projectileIndicesToRemove}
                    \cup {c.projectileObstacleHits[k].obstacle :
                            k \in DOMAIN c.projectileObstacleHits},
      collisions |-> c]

\* Game.increaseDifficulty: [difficulty, level, enemySpawnInterval, obstacleSpawnInterval]
increaseDifficulty(diff) ==
  LET d == diff + DIFFICULTY_STEP
  IN [difficulty |-> d,
      level |-> d \div 1000,
      enemySpawnInterval |->
        Max(ENEMY_INTERVAL_FLOOR, ENEMY_SPAWN_INTERVAL - TruncDiv(d * 150, 1000)),
      obstacleSpawnInterval |->
        Max(OBSTACLE_INTERVAL_FLOOR, OBSTACLE_SPAWN_INTERVAL - TruncDiv(d * 100, 1000))]

----------------------------------------------------------------------------
(* The page *)

\* the elements main.js reads and writes: style.display of the two screens,
\* textContent of the HUD fields and of the final score; gameOverShows counts
\* the times the game-over screen was brought up
Page(startScreen, gameOverScreen) ==
  [startScreen |-> startScreen, gameOverScreen |-> gameOverScreen, score |-> "",
   lives |-> "", level |-> "", finalScore |-> "", gameOverShows |-> 0]

\* the control state of the Babylon editions: the keys the keys map holds as
\* true, the keys that are down on the keyboard, isShooting, lastShootTime
Controls == [keys |-> {}, pressed |-> {}, isShooting |-> FALSE, lastShootTime |-> 0]

\* a Game of the Three.js edition taken on its own, without its page
NoPage ==
  /\ edition = "three"
  /\ dom = Page("", "")
  /\ mobileControls = null
  /\ controls = Controls
  /\ lasers = <<>>
  /\ now = 0

----------------------------------------------------------------------------
(* Inputs *)

\* frame times clock.getDelta() hands to Game.update, ms
\* The frame times the clock reports, tick by tick: two long frames while the
\* page loads, slow frames while it settles, regular frames afterwards.
FrameSeq ==
  <<{3125}, {3125}, {1000}, {1000, 2000}, {200}, {1000}, {1000}, {200}, {200},
    {200}, {200}, {200}, {200}, {200}, {200}, {1000}, {200}, {200}>>

FrameTimes(n) == IF n < Len(FrameSeq) THEN FrameSeq[n + 1] ELSE {200}

DeltaTimes == {200, 1000, 2000, 3125}

\* The keys the player works, in order, each with the tick after which it is
\* worked: back off, stop, then thrust forward.  A player who has begun the
\* sequence goes through with it; one who has not leaves the keys alone.
KeyPlan ==
  <<[key |-> "s", down |-> TRUE, tick |-> 2], [key |-> "s", down |-> FALSE, tick |-> 3],
    [key |-> "w", down |-> TRUE, tick |-> 3], [key |-> "w", down |-> FALSE, tick |-> 4],
    [key |-> "w", down |-> TRUE, tick |-> 15]>>

Planned(key, down) ==
  /\ keyEvents < MaxKeyEvents
  /\ keyEvents < Len(KeyPlan)
  /\ KeyPlan[keyEvents + 1] = [key |-> key, down |-> down, tick |-> ticks]

\* a key of the sequence is to be worked before the next tick
KeyDue ==
  /\ keyEvents > 0
  /\ keyEvents < MaxKeyEvents
  /\ keyEvents < Len(KeyPlan)
  /\ KeyPlan[keyEvents + 1].tick = ticks

Keys == {"w", "s"}

\* positions random(-spawnRadius, spawnRadius) yields for a spawn, at z = spawnZ
SpawnPositions == {Vec(0, 0, SPAWN_Z)}

\* sizes and drift velocities random() yields for an Obstacle
ObstacleSizes == {10}

ObstacleVelocities == {Vec(0, 0, 0 - 30)}

----------------------------------------------------------------------------
(* The session *)

Init ==
  /\ NoPage
  /\ gameState = "menu"
  /\ score = 0
  /\ lives = INITIAL_LIVES
  /\ level = 1
  /\ difficulty = 1000
  /\ player = null
  /\ enemies = <<>>
  /\ obstacles = <<>>
  /\ enemySpawnTimer = 0
  /\ enemySpawnInterval = ENEMY_SPAWN_INTERVAL
  /\ obstacleSpawnTimer = 0
  /\ obstacleSpawnInterval = OBSTACLE_SPAWN_INTERVAL
  /\ difficultyTimer = 0
  /\ scene = {}
  /\ nextId = 1
  /\ collisions = EmptyCollisions
  /\ ticks = 0
  /\ starts = 0
  /\ shots = 0
  /\ keyEvents = 0
  /\ lastOp = "constructor"

\* Game.cleanup: the ids of the meshes it removes from the scene
cleanup ==
  {e.id : e \in Range(enemies)} \cup {o.id : o \in Range(obstacles)}
  \cup (IF player # null THEN Player_destroy(player) ELSE {})

\* a gameOver that drops the session back to the menu
gameOver_toMenu == "menu"

\* Game.gameOver: the phase it sets
gameOver == "gameOver"

\* a head of Game.update that keeps the safety check and drops the phase check
updateReturns_withoutPlayer == player = null

\* the two early returns at the head of Game.update
updateReturns == gameState # "playing" \/ player = null

\* a game over condition that lets the session play on at zero lives
livesExhausted_belowZero(lv) == lv < 0

\* the game over condition at the end of Game.update
livesExhausted(lv) == lv <= 0

\* a spawn test that also fires when the timer equals the interval
timerExceeds_orReaches(timer, interval) == timer >= interval

\* the test of a spawn timer against its interval in Game.update
timerExceeds(timer, interval) == timer > interval

\* what Game.start does to the session
Game_start ==
  /\ starts' = starts + 1
  /\ score' = 0
  /\ lives' = INITIAL_LIVES
  /\ level' = 1
  /\ difficulty' = 1000
  /\ difficultyTimer' = 0
  /\ enemySpawnTimer' = 0
  /\ obstacleSpawnTimer' = 0
  /\ enemies' = <<>>
  /\ obstacles' = <<>>
  /\ player' = Player(nextId)
  /\ scene' = (scene \ cleanup) \cup {nextId}
  /\ nextId' = nextId + 1
  /\ gameState' = "playing"
  /\ lastOp' = "start"
  /\ UNCHANGED <<enemySpawnInterval, obstacleSpawnInterval, collisions, ticks, shots,
                 keyEvents>>

\* Game.start (and Game.restart, which only calls it)
Start ==
  /\ edition = "three"
  /\ starts < MaxStarts
  /\ gameState = "playing" => ticks >= RestartFrom
  /\ Game_start
  /\ UNCHANGED pageVars

\* keydown listener: forwards the key only while the session is playing
KeyDown(key) ==
  /\ gameState = "playing"
  /\ Planned(key, TRUE)
  /\ keyEvents' = keyEvents + 1
  /\ lastOp' = "keydown"
  /\ player' = Player_onKeyDown(player, key)
  /\ UNCHANGED <<gameState, score, lives, level, difficulty, enemies, obstacles,
                 enemySpawnTimer, enemySpawnInterval, obstacleSpawnTimer,
                 obstacleSpawnInterval, difficultyTimer, scene, nextId, collisions,
                 ticks, starts, shots>>
  /\ UNCHANGED pageVars

\* keyup listener
KeyUp(key) ==
  /\ gameState = "playing"
  /\ Planned(key, FALSE)
  /\ keyEvents' = keyEvents + 1
  /\ lastOp' = "keyup"
  /\ player' = Player_onKeyUp(player, key)
  /\ UNCHANGED <<gameState, score, lives, level, difficulty, enemies, obstacles,
                 enemySpawnTimer, enemySpawnInterval, obstacleSpawnTimer,
                 obstacleSpawnInterval, difficultyTimer, scene, nextId, collisions,
                 ticks, starts, shots>>
  /\ UNCHANGED pageVars

\* click listener and the space key: player.shoot() while the session is playing
Shoot ==
  /\ gameState = "playing"
  /\ player.shootCooldown <= 0
  /\ shots < MaxShots
  /\ shots' = shots + 1
  /\ lastOp' = "shoot"
  /\ player' = Player_shoot(player, nextId)
  /\ scene' = scene \cup {nextId}
  /\ nextId' = nextId + 1
  /\ UNCHANGED <<gameState, score, lives, level, difficulty, enemies, obstacles,
                 enemySpawnTimer, enemySpawnInterval, obstacleSpawnTimer,
                 obstacleSpawnInterval, difficultyTimer, collisions, ticks, starts,
                 keyEvents>>
  /\ UNCHANGED pageVars

\* Game.update(deltaTime); p0 is this.player as the frame's earlier calls left it
Game_update(p0, deltaTime) ==
  /\ lastOp' = IF updateReturns THEN "updateReturned" ELSE "update"
  /\ UNCHANGED <<starts, shots, keyEvents>>
  /\ IF updateReturns
     THEN /\ player' = p0
          /\ UNCHANGED <<gameState, score, lives, level, difficulty, enemies,
                         obstacles, enemySpawnTimer, enemySpawnInterval, obstacleSpawnTimer,
                         obstacleSpawnInterval, difficultyTimer, scene, nextId, collisions,
                         ticks>>
     ELSE
       /\ ticks < MaxTicks
       /\ ~KeyDue
       /\ deltaTime \in FrameTimes(ticks)
       /\ ticks' = ticks + 1
          \* this.player.update(deltaTime)
       /\ \E p1 \in {Player_update(p0, deltaTime)} :
          \E expiring \in {{i \in DOMAIN enemies :
                              enemies[i].behaviorTimer + deltaTime > BEHAVIOR_CHANGE_INTERVAL}} :
          \E rnd \in [expiring -> Behaviors] :
          \* the enemy loop: update each, splice the dead out, 100 points each
          \E movedEnemies \in
               {[i \in DOMAIN enemies |->
                   Enemy_update(enemies[i], deltaTime, p1.position, difficulty,
                                IF i \in expiring THEN rnd[i] ELSE enemies[i].currentBehavior)]} :
          \* the obstacle loop: update each, splice the off-screen out
          \E movedObstacles \in
               {[i \in DOMAIN obstacles |-> Obstacle_update(obstacles[i], deltaTime)]} :
          \E deadEnemies \in {{e.id : e \in {d \in Range(movedEnemies) : ~Enemy_isAlive(d)}}} :
          \* this.handleCollisions()
          \E h \in {handleCollisions(p1, SelectSeq(movedEnemies, Enemy_isAlive),
                                     SelectSeq(movedObstacles, LAMBDA o : ~Obstacle_isOffScreen(o)),
                                     score + ENEMY_SCORE * Cardinality(deadEnemies), lives)} :
          \* the spawn and difficulty timers
          \E eTimer \in {enemySpawnTimer + deltaTime} :
          \E oTimer \in {obstacleSpawnTimer + deltaTime} :
          \E dTimer \in {difficultyTimer + deltaTime} :
          \E spawnsEnemy \in {timerExceeds(eTimer, enemySpawnInterval)} :
          \E spawnsObstacle \in {timerExceeds(oTimer, obstacleSpawnInterval)} :
          \E harder \in {dTimer > DIFFICULTY_INCREASE_INTERVAL} :
          \E enemyPos \in (IF spawnsEnemy THEN SpawnPositions ELSE {ZeroVec}) :
          \E obstaclePos \in (IF spawnsObstacle THEN SpawnPositions ELSE {ZeroVec}) :
          \E size \in (IF spawnsObstacle THEN ObstacleSizes ELSE {0}) :
          \E velocity \in (IF spawnsObstacle THEN ObstacleVelocities ELSE {ZeroVec}) :
          \E obstacleId \in {IF spawnsEnemy THEN nextId + 1 ELSE nextId} :
          \E d \in {IF harder THEN increaseDifficulty(difficulty)
                    ELSE [difficulty |-> difficulty, level |-> level,
                          enemySpawnInterval |-> enemySpawnInterval,
                          obstacleSpawnInterval |-> obstacleSpawnInterval]} :
            /\ player' = h.player
            /\ enemies' = IF spawnsEnemy THEN Append(h.enemies, Enemy(nextId, enemyPos))
                          ELSE h.enemies
            /\ obstacles' = IF spawnsObstacle
                            THEN Append(h.obstacles,
                                        Obstacle(obstacleId, obstaclePos, size, velocity))
                            ELSE h.obstacles
            /\ score' = h.score
            /\ lives' = h.lives
            /\ collisions' = h.collisions
            /\ scene' = (scene \ (({q.id : q \in Range(p0.projectiles)}
                                     \ {q.id : q \in Range(p1.projectiles)})
                                  \cup deadEnemies
                                  \cup {o.id : o \in {x \in Range(movedObstacles) :
                                                        Obstacle_isOffScreen(x)}}
                                  \cup h.destroyed))
                        \cup (IF spawnsEnemy THEN {nextId} ELSE {})
                        \cup (IF spawnsObstacle THEN {obstacleId} ELSE {})
            /\ nextId' = nextId + (IF spawnsEnemy THEN 1 ELSE 0)
                                + (IF spawnsObstacle THEN 1 ELSE 0)
            /\ enemySpawnTimer' = IF spawnsEnemy THEN 0 ELSE eTimer
            /\ obstacleSpawnTimer' = IF spawnsObstacle THEN 0 ELSE oTimer
            /\ difficultyTimer' = IF harder THEN 0 ELSE dTimer
            /\ difficulty' = d.difficulty
            /\ level' = d.level
            /\ enemySpawnInterval' = d.enemySpawnInterval
            /\ obstacleSpawnInterval' = d.obstacleSpawnInterval
            /\ gameState' = IF livesExhausted(h.lives) THEN gameOver ELSE gameState

\* Game.update(deltaTime) called on its own, the page left alone
Update(deltaTime) ==
  /\ edition = "three"
  /\ Game_update(player, deltaTime)
  /\ UNCHANGED pageVars

Next ==
  \/ Start
  \/ \E key \in Keys : KeyDown(key)
  \/ \E key \in Keys : KeyUp(key)
  \/ Shoot
  \/ \E deltaTime \in DeltaTimes : Update(deltaTime)

Spec == Init /\ [][Next]_vars

----------------------------------------------------------------------------
(* main.js of the Three.js edition: startGame and the game loop *)

\* new MobileControls(player): the reference it keeps and whether
\* detectMobile() found a touch device
MobileControls(p, isMobile) == [player |-> p, isMobile |-> isMobile]

\* the page when init() has run: no Game yet, the start screen up
HostLoaded ==
  /\ gameState = "menu"
  /\ score = 0
  /\ lives = INITIAL_LIVES
  /\ level = 1
  /\ difficulty = 1000
  /\ player = null
  /\ enemies = <<>>
  /\ obstacles = <<>>
  /\ enemySpawnTimer = 0
  /\ enemySpawnInterval = ENEMY_SPAWN_INTERVAL
  /\ obstacleSpawnTimer = 0
  /\ obstacleSpawnInterval = OBSTACLE_SPAWN_INTERVAL
  /\ difficultyTimer = 0
  /\ scene = {}
  /\ nextId = 1
  /\ collisions = EmptyCollisions
  /\ ticks = 0
  /\ starts = 0
  /\ shots = 0
  /\ keyEvents = 0
  /\ lastOp = "init"
  /\ edition = "three"
  /\ \E gameOverScreen \in {"", "none"} : dom = Page("", gameOverScreen)
  /\ mobileControls = null
  /\ controls = Controls
  /\ lasers = <<>>
  /\ now = 0

\* the enemies around a ship that has just fired: in the line of fire ten
\* units ahead, unhurt or hit once before, and one unit off the ship
LastTickEnemies ==
  {[position |-> Vec(0, 100, 0), health |-> ENEMY_HEALTH],
   [position |-> Vec(0, 100, 0), health |-> ENEMY_HEALTH - 1],
   [position |-> Vec(0, 0, 10), health |-> ENEMY_HEALTH]}

\* the page between two frames of its first or second session, some seconds
\* into play on a device without touch: the player at rest at the origin has
\* just fired, enemies are ahead of it and on it, one to three lives are left;
\* an earlier session has brought the game-over screen up once
HostInPlay ==
  /\ gameState = "playing"
  /\ score = 0
  /\ lives \in 1..INITIAL_LIVES
  /\ level = 1
  /\ difficulty = 1000
  /\ player = Player_shoot(Player(1), 2)
  /\ obstacles = <<>>
  /\ enemySpawnTimer = 0
  /\ enemySpawnInterval = ENEMY_SPAWN_INTERVAL
  /\ obstacleSpawnTimer = 0
  /\ obstacleSpawnInterval = OBSTACLE_SPAWN_INTERVAL
  /\ difficultyTimer = 0
  /\ collisions = EmptyCollisions
  /\ ticks = Len(FrameSeq) - 10
  /\ shots = 1
  /\ keyEvents = 0
  /\ lastOp = "shoot"
  /\ edition = "three"
  /\ mobileControls = MobileControls(null, FALSE)
  /\ controls = Controls
  /\ lasers = <<>>
  /\ now = 0
  /\ \E session \in 1..MaxStarts :
       /\ starts = session
       /\ dom = [Page("none", "none") EXCEPT !.score = score, !.lives = lives,
                                             !.level = level,
                                             !.gameOverShows = session - 1]
  /\ \E around \in SeqsUpTo(LastTickEnemies, MaxContactEntities) :
       /\ enemies = [i \in DOMAIN around |->
                       [Enemy(2 + i, around[i].position) EXCEPT !.health = around[i].health]]
       /\ nextId = 3 + Len(around)
       /\ scene = 1..(2 + Len(around))

InitHost == HostLoaded \/ HostInPlay

\* game.player.mobileControlsActive = true on a touch device: a TypeError
\* when game.player is null, caught by startGame before game.start() is called
startGameThrows(mc) == mc.isMobile /\ player = null

\* startGame(), the click listener of the start and restart buttons
StartGame ==
  /\ edition = "three"
  /\ starts < MaxStarts
  /\ dom.startScreen # "none" \/ dom.gameOverScreen = "flex"
  /\ dom' = [dom EXCEPT !.startScreen = "none", !.gameOverScreen = "none"]
  /\ IF mobileControls = null
     THEN \E isMobile \in BOOLEAN :
          \E mc \in {MobileControls(IF player = null THEN null ELSE player.id, isMobile)} :
            /\ mobileControls' = mc
            /\ IF startGameThrows(mc)
               THEN /\ lastOp' = "startGameThrew"
                    /\ UNCHANGED <<gameState, score, lives, level, difficulty, player,
                                   enemies, obstacles, enemySpawnTimer, enemySpawnInterval,
                                   obstacleSpawnTimer, obstacleSpawnInterval,
                                   difficultyTimer, scene, nextId, collisions, ticks,
                                   starts, shots, keyEvents>>
               ELSE Game_start
     ELSE Game_start /\ UNCHANGED mobileControls
  /\ UNCHANGED <<edition, controls, lasers, now>>

\* MobileControls.update() reads and writes this.player on a touch device
MobileControls_updateThrows(mc) == mc.isMobile /\ mc.player = null

\* MobileControls.update() with no touch in progress: the released stick
\* damps the velocity of the player it holds
MobileControls_update(mc, p) ==
  IF mc.isMobile /\ p # null /\ mc.player = p.id
  THEN [p EXCEPT !.velocity.x = TruncDiv(p.velocity.x * 9, 10),
                 !.velocity.y = TruncDiv(p.velocity.y * 9, 10)]
  ELSE p

\* a check for the game over transition that does not look at the screen
gameOverToShow_everyFrame(state, display) == state = "gameOver"

\* the check for the game over transition in gameLoop
gameOverToShow(state, display) == state = "gameOver" /\ display = "none"

\* gameLoop(): one animation frame
GameLoop(deltaTime) ==
  /\ edition = "three"
  /\ UNCHANGED <<edition, mobileControls, controls, lasers, now>>
  /\ IF mobileControls = null
     THEN \* no Game yet: the frame only renders
          /\ lastOp' = "gameLoop"
          /\ UNCHANGED <<gameState, score, lives, level, difficulty, player, enemies,
                         obstacles, enemySpawnTimer, enemySpawnInterval, obstacleSpawnTimer,
                         obstacleSpawnInterval, difficultyTimer, scene, nextId, collisions,
                         ticks, starts, shots, keyEvents, dom>>
     ELSE IF MobileControls_updateThrows(mobileControls)
     THEN \* the TypeError ends the frame before game.update and updateHUD
          /\ lastOp' = "gameLoopThrew"
          /\ UNCHANGED <<gameState, score, lives, level, difficulty, player, enemies,
                         obstacles, enemySpawnTimer, enemySpawnInterval, obstacleSpawnTimer,
                         obstacleSpawnInterval, difficultyTimer, scene, nextId, collisions,
                         ticks, starts, shots, keyEvents, dom>>
     ELSE /\ Game_update(MobileControls_update(mobileControls, player), deltaTime)
          /\ \E show \in {gameOverToShow(gameState', dom.gameOverScreen)} :
               dom' = [dom EXCEPT !.score = score', !.lives = lives', !.level = level',
                                  !.gameOverScreen = IF show THEN "flex" ELSE @,
                                  !.finalScore = IF show THEN score' ELSE @,
                                  !.gameOverShows = IF show THEN @ + 1 ELSE @]

\* the click listener of the page (Shoot) left alone by startGame and gameLoop
NextHost ==
  \/ StartGame
  \/ \E deltaTime \in DeltaTimes : GameLoop(deltaTime)
  \/ Shoot

SpecHost == InitHost /\ [][NextHost]_vars

----------------------------------------------------------------------------
(* The collision detector on its own *)

\* where the enemies handed to the detector sit: on the line of fire at the
\* first projectile, just behind it, at the second projectile, out of every
\* range, and on the player
EnemySpots == {Vec(0, 80, 0), Vec(0, 90, 0), Vec(0, 140, 0), Vec(0, 300, 0), Vec(0, 0, 10)}

\* Player.projectiles of a resting ship: one shot after one 200 ms frame, and
\* two shots 200 ms apart after the second one's first frame
ProjectileFlights ==
  {<<Projectile_update(Projectile(2, Vec(0, SPAWN_OFFSET, 0), Heading), 200)>>,
   <<Projectile_update(Projectile_update(Projectile(2, Vec(0, SPAWN_OFFSET, 0), Heading), 200),
                       200),
     Projectile_update(Projectile(3, Vec(0, SPAWN_OFFSET, 0), Heading), 200)>>}

\* a playing session at the point of Game.update where handleCollisions calls
\* the detector: the player at rest at the origin, its projectiles in flight,
\* the enemies at their spots
InitDetector ==
  /\ NoPage
  /\ gameState = "playing"
  /\ score = 0
  /\ lives = INITIAL_LIVES
  /\ level = 1
  /\ difficulty = 1000
  /\ obstacles = <<>>
  /\ enemySpawnTimer = 0
  /\ enemySpawnInterval = ENEMY_SPAWN_INTERVAL
  /\ obstacleSpawnTimer = 0
  /\ obstacleSpawnInterval = OBSTACLE_SPAWN_INTERVAL
  /\ difficultyTimer = 0
  /\ collisions = EmptyCollisions
  /\ ticks = 0
  /\ starts = 1
  /\ keyEvents = 0
  /\ lastOp = "update"
  /\ \E flight \in ProjectileFlights :
     \E spots \in SeqsUpTo(EnemySpots, MaxDetectorEnemies) :
       /\ player = [Player(1) EXCEPT !.projectiles = flight]
       /\ enemies = [i \in DOMAIN spots |-> Enemy(3 + i, spots[i])]
       /\ shots = Len(flight)
       /\ nextId = 4 + Len(spots)
       /\ scene = {1} \cup {q.id : q \in Range(flight)} \cup {3 + i : i \in DOMAIN spots}

\* a detector call that also applies what handleCollisions does with the batch
Detect_applyingTheBatch ==
  /\ lastOp # "checkAllCollisions"
  /\ \E h \in {handleCollisions(player, enemies, obstacles, score, lives)} :
       /\ player' = h.player
       /\ enemies' = h.enemies
       /\ obstacles' = h.obstacles
       /\ score' = h.score
       /\ lives' = h.lives
       /\ collisions' = h.collisions
       /\ scene' = scene \ h.destroyed
  /\ lastOp' = "checkAllCollisions"
  /\ UNCHANGED <<gameState, level, difficulty, enemySpawnTimer, enemySpawnInterval,
                 obstacleSpawnTimer, obstacleSpawnInterval, difficultyTimer, nextId, ticks,
                 starts, shots, keyEvents>>
  /\ UNCHANGED pageVars

\* CollisionDetector.checkAllCollisions(player, enemies, obstacles)
Detect ==
  /\ lastOp # "checkAllCollisions"
  /\ collisions' = checkAllCollisions(player, enemies, obstacles)
  /\ lastOp' = "checkAllCollisions"
  /\ UNCHANGED <<gameState, score, lives, level, difficulty, player, enemies, obstacles,
                 enemySpawnTimer, enemySpawnInterval, obstacleSpawnTimer,
                 obstacleSpawnInterval, difficultyTimer, scene, nextId, ticks, starts,
                 shots, keyEvents>>
  /\ UNCHANGED pageVars

NextDetector == Detect

SpecDetector == InitDetector /\ [][NextDetector]_vars

----------------------------------------------------------------------------
(* The difficulty progression on its own *)

\* the difficulty, thousandths, up to which the progression is followed
MaxDifficulty == 12000

\* a session right after its first Game.start
InitDifficulty ==
  /\ NoPage
  /\ gameState = "playing"
  /\ score = 0
  /\ lives = INITIAL_LIVES
  /\ level = 1
  /\ difficulty = 1000
  /\ player = Player(1)
  /\ enemies = <<>>
  /\ obstacles = <<>>
  /\ enemySpawnTimer = 0
  /\ enemySpawnInterval = ENEMY_SPAWN_INTERVAL
  /\ obstacleSpawnTimer = 0
  /\ obstacleSpawnInterval = OBSTACLE_SPAWN_INTERVAL
  /\ difficultyTimer = 0
  /\ scene = {1}
  /\ nextId = 2
  /\ collisions = EmptyCollisions
  /\ ticks = 0
  /\ starts = 1
  /\ shots = 0
  /\ keyEvents = 0
  /\ lastOp = "start"

\* Game.increaseDifficulty()
IncreaseDifficulty ==
  /\ gameState = "playing"
  /\ difficulty < MaxDifficulty
  /\ \E d \in {increaseDifficulty(difficulty)} :
       /\ difficulty' = d.difficulty
       /\ level' = d.level
       /\ enemySpawnInterval' = d.enemySpawnInterval
       /\ obstacleSpawnInterval' = d.obstacleSpawnInterval
  /\ lastOp' = "increaseDifficulty"
  /\ UNCHANGED <<gameState, score, lives, player, enemies, obstacles, enemySpawnTimer,
                 obstacleSpawnTimer, difficultyTimer, scene, nextId, collisions, ticks,
                 starts, shots, keyEvents>>
  /\ UNCHANGED pageVars

\* Game.restart()
Restart ==
  /\ starts < MaxStarts
  /\ Game_start
  /\ UNCHANGED pageVars

NextDifficulty == IncreaseDifficulty \/ Restart

SpecDifficulty == InitDifficulty /\ [][NextDifficulty]_vars

----------------------------------------------------------------------------
(* The Player on its own *)

\* Player.update calls in one behaviour
MaxPlayerTicks == 3
\* MobileControls.update calls in one behaviour
MaxStickUpdates == 1

\* frame times, ms: an empty frame, short and regular frames, the frame that
\* brings a projectile fired 200 ms earlier to its lifetime, a frame after
\* the page was in the background
PlayerFrames == {0, 100, 200, 4800, 20000}

\* where the ship is: at the origin, in the corner of the box, near two faces
PlayerPositions == {ZeroVec, Vec(BOUND_X, BOUND_Y, BOUND_Z), Vec(0 - 495, 0 - BOUND_Y, 0)}

\* its velocity: at rest, drifting out of the corner, drifting down and back
PlayerVelocities == {ZeroVec, Vec(100, 50, 30), Vec(0 - 100, 0 - 50, 0 - 30)}

\* keys held: none, forward thrust, backward thrust, down, forward and up
PlayerKeySets == {{}, {"w"}, {"s"}, {"q"}, {"w", "e"}}

\* joystickState of the touch stick, thousandths: released, pushed half and
\* fully forward (a stick pushed forward keeps the ship's rotation at 0)
JoystickStates == {[x |-> 0, y |-> 0], [x |-> 0, y |-> 0 - 500], [x |-> 0, y |-> 0 - 1000]}

\* the arcade speed of MobileControls, tenths of a unit per second
JOYSTICK_SPEED == 80
\* the stick's dead zone, thousandths
JOYSTICK_DEADZONE == 100

\* a playing session with no enemies and obstacles; the ship somewhere in its
\* box, moving, with keys held
InitPlayer ==
  /\ NoPage
  /\ gameState = "playing"
  /\ score = 0
  /\ lives = INITIAL_LIVES
  /\ level = 1
  /\ difficulty = 1000
  /\ enemies = <<>>
  /\ obstacles = <<>>
  /\ enemySpawnTimer = 0
  /\ enemySpawnInterval = ENEMY_SPAWN_INTERVAL
  /\ obstacleSpawnTimer = 0
  /\ obstacleSpawnInterval = OBSTACLE_SPAWN_INTERVAL
  /\ difficultyTimer = 0
  /\ collisions = EmptyCollisions
  /\ scene = {1}
  /\ nextId = 2
  /\ ticks = 0
  /\ starts = 1
  /\ shots = 0
  /\ keyEvents = 0
  /\ lastOp = "start"
  /\ \E position \in PlayerPositions :
     \E velocity \in PlayerVelocities :
     \E keys \in PlayerKeySets :
       player = [Player(1) EXCEPT !.position = position, !.velocity = velocity,
                                  !.keys = keys]

\* Player.update(deltaTime)
PlayerUpdate(deltaTime) ==
  /\ ticks < MaxPlayerTicks
  /\ ticks' = ticks + 1
  /\ player' = Player_update(player, deltaTime)
  /\ scene' = scene \ ({q.id : q \in Range(player.projectiles)}
                         \ {q.id : q \in Range(player'.projectiles)})
  /\ lastOp' = IF deltaTime = 0 THEN "Player.update(0)" ELSE "Player.update"
  /\ UNCHANGED <<gameState, score, lives, level, difficulty, enemies, obstacles,
                 enemySpawnTimer, enemySpawnInterval, obstacleSpawnTimer,
                 obstacleSpawnInterval, difficultyTimer, nextId, collisions, starts,
                 shots, keyEvents>>
  /\ UNCHANGED pageVars

\* Player.shoot(), called whether or not the cooldown has run out
PlayerShoot ==
  /\ lastOp # "Player.shoot"
  /\ shots < MaxShots
  /\ player' = Player_shoot(player, nextId)
  /\ \E created \in {Len(player'.projectiles) > Len(player.projectiles)} :
       /\ scene' = IF created THEN scene \cup {nextId} ELSE scene
       /\ nextId' = IF created THEN nextId + 1 ELSE nextId
       /\ shots' = IF created THEN shots + 1 ELSE shots
  /\ lastOp' = "Player.shoot"
  /\ UNCHANGED <<gameState, score, lives, level, difficulty, enemies, obstacles,
                 enemySpawnTimer, enemySpawnInterval, obstacleSpawnTimer,
                 obstacleSpawnInterval, difficultyTimer, collisions, ticks, starts,
                 keyEvents>>
  /\ UNCHANGED pageVars

\* MobileControls.update() on a touch device: the stick sets or damps the
\* velocity, a pressed fire button calls shoot
MobileControlsUpdate(stick, firePressed) ==
  /\ keyEvents < MaxStickUpdates
  /\ keyEvents' = keyEvents + 1
  /\ firePressed => shots < MaxShots
  /\ \E isActive \in {stick.x > JOYSTICK_DEADZONE \/ 0 - stick.x > JOYSTICK_DEADZONE
                        \/ stick.y > JOYSTICK_DEADZONE \/ 0 - stick.y > JOYSTICK_DEADZONE} :
     \E steered \in
          {IF isActive
           THEN [player EXCEPT !.velocity.x = TruncDiv(stick.x * JOYSTICK_SPEED, 1000),
                               !.velocity.y = 0 - TruncDiv(stick.y * JOYSTICK_SPEED, 1000)]
           ELSE [player EXCEPT !.velocity.x = TruncDiv(player.velocity.x * 9, 10),
                               !.velocity.y = TruncDiv(player.velocity.y * 9, 10)]} :
       /\ player' = IF firePressed THEN Player_shoot(steered, nextId) ELSE steered
       /\ \E created \in {Len(player'.projectiles) > Len(player.projectiles)} :
            /\ scene' = IF created THEN scene \cup {nextId} ELSE scene
            /\ nextId' = IF created THEN nextId + 1 ELSE nextId
            /\ shots' = IF created THEN shots + 1 ELSE shots
  /\ lastOp' = "MobileControls.update"
  /\ UNCHANGED <<gameState, score, lives, level, difficulty, enemies, obstacles,
                 enemySpawnTimer, enemySpawnInterval, obstacleSpawnTimer,
                 obstacleSpawnInterval, difficultyTimer, collisions, ticks, starts>>
  /\ UNCHANGED pageVars

NextPlayer ==
  \/ \E deltaTime \in PlayerFrames : PlayerUpdate(deltaTime)
  \/ PlayerShoot
  \/ \E stick \in JoystickStates : \E firePressed \in BOOLEAN :
       MobileControlsUpdate(stick, firePressed)

SpecPlayer == InitPlayer /\ [][NextPlayer]_vars

----------------------------------------------------------------------------
(* Game.handleCollisions on its own *)

\* where the enemies sit when handleCollisions runs: at the first projectile,
\* exactly 1.5 units behind it, on the player, exactly 2.7 units from the
\* player, and out of every range
ContactEnemySpots ==
  {Vec(0, 80, 0), Vec(0, 95, 0), Vec(0, 0, 10), Vec(0, 27, 0), Vec(0, 300, 0)}

\* position and size of the obstacles: unit asteroids touching the player,
\* exactly 3 units from it, inside and exactly at 1.8 units from the first
\* projectile, far away, and an asteroid of size 2 between the two projectiles
ObstaclePlacements ==
  {[position |-> Vec(0, 0, 20), size |-> 10], [position |-> Vec(0, 0, 30), size |-> 10],
   [position |-> Vec(0, 90, 0), size |-> 10], [position |-> Vec(0, 98, 0), size |-> 10],
   [position |-> Vec(0, 400, 0), size |-> 10], [position |-> Vec(0, 110, 0), size |-> 20]}

\* a playing session at the point of Game.update where handleCollisions is
\* called: the player at rest at the origin with its projectiles in flight,
\* enemies and obstacles at their places, one to three lives left
InitCollisions ==
  /\ NoPage
  /\ gameState = "playing"
  /\ score = 0
  /\ lives \in 1..INITIAL_LIVES
  /\ level = 1
  /\ difficulty = 1000
  /\ enemySpawnTimer = 0
  /\ enemySpawnInterval = ENEMY_SPAWN_INTERVAL
  /\ obstacleSpawnTimer = 0
  /\ obstacleSpawnInterval = OBSTACLE_SPAWN_INTERVAL
  /\ difficultyTimer = 0
  /\ collisions = EmptyCollisions
  /\ ticks = 0
  /\ starts = 1
  /\ keyEvents = 0
  /\ lastOp = "update"
  /\ \E flight \in ProjectileFlights :
     \E spots \in SeqsUpTo(ContactEnemySpots, MaxContactEntities) :
     \E places \in SeqsUpTo(ObstaclePlacements, MaxContactEntities) :
       /\ player = [Player(1) EXCEPT !.projectiles = flight]
       /\ enemies = [i \in DOMAIN spots |-> Enemy(3 + i, spots[i])]
       /\ obstacles = [i \in DOMAIN places |->
                         Obstacle(3 + Len(spots) + i, places[i].position, places[i].size,
                                  Vec(0, 0, 0 - 30))]
       /\ shots = Len(flight)
       /\ nextId = 4 + Len(spots) + Len(places)
       /\ scene = {1} \cup {q.id : q \in Range(flight)}
                      \cup {3 + i : i \in 1..(Len(spots) + Len(places))}

\* Game.handleCollisions()
HandleCollisions ==
  /\ lastOp = "update"
  /\ \E h \in {handleCollisions(player, enemies, obstacles, score, lives)} :
       /\ player' = h.player
       /\ enemies' = h.enemies
       /\ obstacles' = h.obstacles
       /\ score' = h.score
       /\ lives' = h.lives
       /\ collisions' = h.collisions
       /\ scene' = scene \ h.destroyed
  /\ lastOp' = "handleCollisions"
  /\ UNCHANGED <<gameState, level, difficulty, enemySpawnTimer, enemySpawnInterval,
                 obstacleSpawnTimer, obstacleSpawnInterval, difficultyTimer, nextId, ticks,
                 starts, shots, keyEvents>>
  /\ UNCHANGED pageVars

NextCollisions == Detect \/ HandleCollisions

SpecCollisions == InitCollisions /\ [][NextCollisions]_vars

----------------------------------------------------------------------------
(* The edge of the world *)

\* where the far enemies are and what they are doing: fleeing just inside the
\* 600 units, chasing from there, fleeing half way out
FarEnemies ==
  {[position |-> Vec(0, 5990, 0), currentBehavior |-> "evade"],
   [position |-> Vec(0, 5990, 0), currentBehavior |-> "chase"],
   [position |-> Vec(0, 3000, 0), currentBehavior |-> "evade"]}

\* position and drift of the far obstacles: just inside the 600 units and
\* drifting outwards, half way out and drifting inwards
FarObstacles ==
  {[position |-> Vec(0, 5999, 0), velocity |-> Vec(0, 30, 0)],
   [position |-> Vec(0, 3000, 0), velocity |-> Vec(0, 0 - 30, 0)]}

\* a playing session between two frames, some seconds into play: the player
\* at rest at the origin, enemies and obstacles far out, all within 600 units
InitBounds ==
  /\ NoPage
  /\ gameState = "playing"
  /\ score = 0
  /\ lives = INITIAL_LIVES
  /\ level = 1
  /\ difficulty = 1000
  /\ player = Player(1)
  /\ enemySpawnTimer = 0
  /\ enemySpawnInterval = ENEMY_SPAWN_INTERVAL
  /\ obstacleSpawnTimer = 0
  /\ obstacleSpawnInterval = OBSTACLE_SPAWN_INTERVAL
  /\ difficultyTimer = 0
  /\ collisions = EmptyCollisions
  /\ ticks = Len(FrameSeq) - 10
  /\ starts = 1
  /\ shots = 0
  /\ keyEvents = 0
  /\ lastOp = "update"
  /\ \E far \in SeqsUpTo(FarEnemies, MaxContactEntities) :
     \E rocks \in SeqsUpTo(FarObstacles, MaxContactEntities) :
       /\ enemies = [i \in DOMAIN far |->
                       [Enemy(1 + i, far[i].position)
                          EXCEPT !.currentBehavior = far[i].currentBehavior]]
       /\ obstacles = [i \in DOMAIN rocks |->
                         Obstacle(1 + Len(far) + i, rocks[i].position, 10, rocks[i].velocity)]
       /\ nextId = 2 + Len(far) + Len(rocks)
       /\ scene = 1..(1 + Len(far) + Len(rocks))

NextBounds == \E deltaTime \in DeltaTimes : Update(deltaTime)

SpecBounds == InitBounds /\ [][NextBounds]_vars

----------------------------------------------------------------------------
(* Entities that stay in contact with the player *)

\* where the enemies are: chasing from one unit off the player, which keeps
\* them within the 2.7 units of contact, and chasing from 30 units off
NearEnemies == {Vec(0, 0, 10), Vec(0, 300, 0)}

\* position and drift of the obstacles: drifting onto the player from two
\* units off, drifting away from 2.9 units off, half way out
NearObstacles ==
  {[position |-> Vec(0, 0, 20), velocity |-> Vec(0, 0, 0 - 30)],
   [position |-> Vec(0, 0, 29), velocity |-> Vec(0, 0, 30)],
   [position |-> Vec(0, 3000, 0), velocity |-> Vec(0, 0 - 30, 0)]}

\* a playing session between two frames, some seconds into play: the player
\* at rest at the origin, enemies and unit asteroids next to it
InitContact ==
  /\ NoPage
  /\ gameState = "playing"
  /\ score = 0
  /\ lives = INITIAL_LIVES
  /\ level = 1
  /\ difficulty = 1000
  /\ player = Player(1)
  /\ enemySpawnTimer = 0
  /\ enemySpawnInterval = ENEMY_SPAWN_INTERVAL
  /\ obstacleSpawnTimer = 0
  /\ obstacleSpawnInterval = OBSTACLE_SPAWN_INTERVAL
  /\ difficultyTimer = 0
  /\ collisions = EmptyCollisions
  /\ ticks = Len(FrameSeq) - 10
  /\ starts = 1
  /\ shots = 0
  /\ keyEvents = 0
  /\ lastOp = "start"
  /\ \E near \in SeqsUpTo(NearEnemies, MaxContactEntities) :
     \E rocks \in SeqsUpTo(NearObstacles, MaxContactEntities) :
       /\ enemies = [i \in DOMAIN near |-> Enemy(1 + i, near[i])]
       /\ obstacles = [i \in DOMAIN rocks |->
                         Obstacle(1 + Len(near) + i, rocks[i].position, 10, rocks[i].velocity)]
       /\ nextId = 2 + Len(near) + Len(rocks)
       /\ scene = 1..(1 + Len(near) + Len(rocks))

NextContact == \E deltaTime \in DeltaTimes : Update(deltaTime)

SpecContact == InitContact /\ [][NextContact]_vars

----------------------------------------------------------------------------
(* The last tick of a session *)

\* a playing session between two frames, some seconds into play: the player
\* at rest at the origin has just fired, enemies are ahead of it and on it,
\* one to three lives are left
InitLastTick ==
  /\ NoPage
  /\ gameState = "playing"
  /\ score = 0
  /\ lives \in 1..INITIAL_LIVES
  /\ level = 1
  /\ difficulty = 1000
  /\ player = Player_shoot(Player(1), 2)
  /\ obstacles = <<>>
  /\ enemySpawnTimer = 0
  /\ enemySpawnInterval = ENEMY_SPAWN_INTERVAL
  /\ obstacleSpawnTimer = 0
  /\ obstacleSpawnInterval = OBSTACLE_SPAWN_INTERVAL
  /\ difficultyTimer = 0
  /\ collisions = EmptyCollisions
  /\ ticks = Len(FrameSeq) - 10
  /\ starts = 1
  /\ shots = 1
  /\ keyEvents = 0
  /\ lastOp = "shoot"
  /\ \E around \in SeqsUpTo(LastTickEnemies, MaxContactEntities) :
       /\ enemies = [i \in DOMAIN around |->
                       [Enemy(2 + i, around[i].position) EXCEPT !.health = around[i].health]]
       /\ nextId = 3 + Len(around)
       /\ scene = 1..(2 + Len(around))

NextLastTick ==
  \/ \E deltaTime \in DeltaTimes : Update(deltaTime)
  \/ Start

SpecLastTick == InitLastTick /\ [][NextLastTick]_vars

----------------------------------------------------------------------------
(* The Babylon.js edition (part_000) *)

\* In the two Babylon programs lengths are in hundredths of a unit, times in
\* milliseconds and velocities in hundredths of a unit per second.  Entities
\* carry the identity of the mesh they were created with; arrays are only
\* pushed to and spliced, so identities ascend with the array index.

\* the variables only the Three.js Game has
gameOnlyVars == <<difficulty, obstacles, enemySpawnInterval, obstacleSpawnTimer,
                  obstacleSpawnInterval, difficultyTimer, scene, shots, keyEvents,
                  mobileControls>>

\* the keys of the keyboard that are pressed and released
BabylonKeys == {"w", " "}

\* the times between two frames, ms
BabylonDeltaTimes == {16, 50}

\* the values (Math.random() - 0.5) * 20 takes in spawnEnemy
SpawnXs == {0, 500}

Babylon_createPlayer ==
  [position |-> Vec(0, 0, -500), velocity |-> ZeroVec, speed |-> 1500,
   shootCooldown |-> 0]

Babylon_createEnemy(id, position) ==
  [id |-> id, position |-> position, velocity |-> Vec(0, 0, -500), health |-> 2]

Babylon_createProjectile(id, position, direction) ==
  [id |-> id, position |-> position,
   velocity |-> Vec(direction.x * 3000, direction.y * 3000, direction.z * 3000),
   isPlayerProjectile |-> TRUE]

Babylon_updateHUD(d, sc, lv) == [d EXCEPT !.score = sc, !.lives = lv]

Babylon_gameOver(d, sc) ==
  [d EXCEPT !.gameOverScreen = "flex", !.finalScore = sc, !.gameOverShows = @ + 1]

\* the page when the script has run: the menu, no ship yet
BabylonLoaded ==
  /\ gameState = "menu"
  /\ score = 0
  /\ lives = 3
  /\ level = 1
  /\ difficulty = 1000
  /\ player = null
  /\ enemies = <<>>
  /\ obstacles = <<>>
  /\ enemySpawnTimer = 0
  /\ enemySpawnInterval = ENEMY_SPAWN_INTERVAL
  /\ obstacleSpawnTimer = 0
  /\ obstacleSpawnInterval = OBSTACLE_SPAWN_INTERVAL
  /\ difficultyTimer = 0
  /\ scene = {}
  /\ nextId = 1
  /\ collisions = <<>>
  /\ ticks = 0
  /\ starts = 0
  /\ shots = 0
  /\ keyEvents = 0
  /\ lastOp = "init"
  /\ edition = "babylon"
  /\ dom = Page("", "none")
  /\ mobileControls = null
  /\ controls = Controls
  /\ lasers = <<>>
  /\ now = 0

\* the enemies met some seconds into play, oldest first: one about to leave
\* at z = -20 and one a unit and a half ahead of the ship, unhurt or hit
\* once; enemies are spawned more than two seconds, that is ten units, apart
BabylonEnemyRows ==
  {<<>>,
   <<[z |-> -1990, health |-> 2]>>,
   <<[z |-> -350, health |-> 2]>>,
   <<[z |-> -350, health |-> 1]>>,
   <<[z |-> -1990, health |-> 2], [z |-> -350, health |-> 2]>>,
   <<[z |-> -1990, health |-> 1], [z |-> -350, health |-> 1]>>}

\* the page between two frames of the first session, some seconds into play,
\* with the last life or all three left
BabylonInPlay ==
  /\ gameState = "playing"
  /\ score = 0
  /\ lives \in {1, 3}
  /\ level = 1
  /\ difficulty = 1000
  /\ player = Babylon_createPlayer
  /\ obstacles = <<>>
  /\ enemySpawnTimer \in {0, 1990}
  /\ enemySpawnInterval = ENEMY_SPAWN_INTERVAL
  /\ obstacleSpawnTimer = 0
  /\ obstacleSpawnInterval = OBSTACLE_SPAWN_INTERVAL
  /\ difficultyTimer = 0
  /\ scene = {}
  /\ collisions = <<>>
  /\ ticks = 0
  /\ starts = 1
  /\ shots = 0
  /\ keyEvents = 0
  /\ lastOp = "render"
  /\ edition = "babylon"
  /\ dom = Babylon_updateHUD(Page("none", "none"), score, lives)
  /\ mobileControls = null
  /\ controls = Controls
  /\ lasers = <<>>
  /\ now = 0
  /\ \E row \in BabylonEnemyRows :
       /\ enemies = [i \in DOMAIN row |->
                       [Babylon_createEnemy(i, Vec(0, 0, row[i].z))
                          EXCEPT !.health = row[i].health]]
       /\ nextId = 1 + Len(row)

\* startGame, the click handler of the start and restart buttons, which are
\* on the start screen and on the game-over screen
Babylon_startGame ==
  /\ edition = "babylon"
  /\ starts < MaxStarts
  /\ dom.startScreen # "none" \/ dom.gameOverScreen = "flex"
  /\ gameState' = "playing"
  /\ score' = 0
  /\ lives' = 3
  /\ enemies' = <<>>
  /\ lasers' = <<>>
  /\ player' = Babylon_createPlayer
  /\ dom' = Babylon_updateHUD([dom EXCEPT !.startScreen = "none",
                                          !.gameOverScreen = "none"], 0, 3)
  /\ starts' = starts + 1
  /\ lastOp' = "startGame"
  /\ UNCHANGED <<level, enemySpawnTimer, nextId, collisions, ticks, edition,
                 controls, now>>
  /\ UNCHANGED gameOnlyVars

\* shoot(): a projectile from the ship's position along +z
Babylon_shoot ==
  IF player = null
    THEN UNCHANGED <<player, lasers, nextId>>
    ELSE /\ lasers' = Append(lasers, Babylon_createProjectile(nextId, player.position,
                                                              Vec(0, 0, 1)))
         /\ player' = [player EXCEPT !.shootCooldown = 300]
         /\ nextId' = nextId + 1

\* the handler on scene.onKeyboardObservable; controls.pressed is the
\* keyboard itself, a key goes down only when up and up only when down
Babylon_onKeyboard(type, key) ==
  /\ edition = "babylon"
  /\ type = "keydown" => key \notin controls.pressed
  /\ type = "keyup" => key \in controls.pressed
  /\ LET pressed == IF type = "keydown" THEN controls.pressed \cup {key}
                    ELSE controls.pressed \ {key}
     IN IF gameState # "playing"
          THEN /\ controls' = [controls EXCEPT !.pressed = pressed]
               /\ UNCHANGED <<player, lasers, nextId>>
          ELSE /\ controls' = [controls EXCEPT
                                 !.pressed = pressed,
                                 !.keys = IF type = "keydown" THEN @ \cup {key}
                                          ELSE @ \ {key}]
               /\ IF type = "keydown" /\ key = " " /\ player.shootCooldown <= 0
                    THEN Babylon_shoot
                    ELSE UNCHANGED <<player, lasers, nextId>>
  /\ lastOp' = type
  /\ UNCHANGED <<gameState, score, lives, level, enemies, enemySpawnTimer,
                 collisions, ticks, starts, edition, dom, now>>
  /\ UNCHANGED gameOnlyVars

\* the handler on scene.onPointerObservable for POINTERDOWN
Babylon_onPointerDown ==
  /\ edition = "babylon"
  /\ IF gameState = "playing" /\ player.shootCooldown <= 0
       THEN Babylon_shoot
       ELSE UNCHANGED <<player, lasers, nextId>>
  /\ lastOp' = "pointerdown"
  /\ UNCHANGED <<gameState, score, lives, level, enemies, enemySpawnTimer,
                 collisions, ticks, starts, edition, dom, controls, now>>
  /\ UNCHANGED gameOnlyVars

\* the player movement of updateGame: velocity from the keys or damped, the
\* position advanced and clamped, the shoot cooldown run down
Babylon_movePlayer(p, keys, deltaTime) ==
  LET on(k) == IF k \in keys THEN 1 ELSE 0
      either(a, b) == IF a \in keys \/ b \in keys THEN 1 ELSE 0
      inputDir == Vec(either("d", "arrowright") - either("a", "arrowleft"),
                      on("q") - on("e"),
                      either("w", "arrowup") - either("s", "arrowdown"))
      len == Sqrt(SquaredNorm(inputDir) * DirScale * DirScale)
      velocity == IF SquaredNorm(inputDir) > 0
                    THEN Vec(TruncDiv(inputDir.x * DirScale * p.speed, len),
                             TruncDiv(inputDir.y * DirScale * p.speed, len),
                             TruncDiv(inputDir.z * DirScale * p.speed, len))
                    ELSE Vec(TruncDiv(p.velocity.x * 9, 10),
                             TruncDiv(p.velocity.y * 9, 10),
                             TruncDiv(p.velocity.z * 9, 10))
      moved == Advance(p.position, velocity, deltaTime, 1000)
  IN [p EXCEPT !.velocity = velocity,
               !.position = Vec(Max(-1500, Min(1500, moved.x)),
                                Max(-500, Min(1000, moved.y)),
                                Max(-1000, Min(2000, moved.z))),
               !.shootCooldown = IF @ > 0 THEN @ - deltaTime ELSE @]

\* the projectile loop of updateGame
Babylon_moveProjectiles(ps, deltaTime) ==
  LET moved == [i \in DOMAIN ps |->
                  [ps[i] EXCEPT !.position = Advance(@, ps[i].velocity, deltaTime, 1000)]]
      inBounds(proj) == ~ (proj.position.z > 6000 \/ proj.position.z < -6000)
  IN SelectSeq(moved, inBounds)

\* the enemy loop of updateGame from index i down: an enemy past z = -20 is
\* removed and costs a life, and the game is over when no life is left
RECURSIVE Babylon_moveEnemies(_, _, _)
Babylon_moveEnemies(st, i, deltaTime) ==
  IF i = 0 THEN st
  ELSE LET enemy == [st.enemies[i] EXCEPT
                       !.position = Advance(@, st.enemies[i].velocity, deltaTime, 1000)]
       IN IF enemy.position.z < -2000
            THEN LET lv == st.lives - 1
                     hud == Babylon_updateHUD(st.dom, st.score, lv)
                 IN Babylon_moveEnemies(
                      [st EXCEPT !.enemies = Splice(st.enemies, i),
                                 !.lives = lv,
                                 !.gameState = IF lv <= 0 THEN "gameOver" ELSE @,
                                 !.dom = IF lv <= 0 THEN Babylon_gameOver(hud, st.score)
                                         ELSE hud],
                      i - 1, deltaTime)
            ELSE Babylon_moveEnemies([st EXCEPT !.enemies[i] = enemy], i - 1, deltaTime)

\* an inner loop that keeps the match met last, the lowest index in range
enemyHit_lowest(position, es) ==
  LET inRange == {j \in DOMAIN es : CloserThan(position, es[j].position, 150)}
  IN IF inRange = {} THEN 0 ELSE CHOOSE j \in inRange : \A k \in inRange : j <= k

\* the inner loop of both collision scans: from the last enemy down, it
\* stops at the first enemy closer than 1.5; 0 when there is none
enemyHit(position, es) ==
  LET inRange == {j \in DOMAIN es : CloserThan(position, es[j].position, 150)}
  IN IF inRange = {} THEN 0 ELSE CHOOSE j \in inRange : \A k \in inRange : k <= j

\* a scan that pays for every hit, also one the enemy survives
scoreAfterHit_everyHit(sc, enemy) == sc + 10

\* the score after a hit that has left the enemy at enemy.health
scoreAfterHit(sc, enemy) == IF enemy.health <= 0 THEN sc + 10 ELSE sc

\* the collision detection of updateGame from projectile i down; st.hits
\* lists the hits in the order they are made
RECURSIVE Babylon_collisions(_, _)
Babylon_collisions(st, i) ==
  IF i = 0 THEN st
  ELSE LET proj == st.projectiles[i]
           j == IF proj.isPlayerProjectile THEN enemyHit(proj.position, st.enemies)
                ELSE 0
       IN IF j = 0 THEN Babylon_collisions(st, i - 1)
          ELSE LET enemy == [st.enemies[j] EXCEPT !.health = @ - 1]
                   hit == [projectile |-> proj, enemy |-> enemy]
               IN Babylon_collisions(
                    [st EXCEPT
                       !.projectiles = Splice(st.projectiles, i),
                       !.enemies = IF enemy.health <= 0 THEN Splice(st.enemies, j)
                                   ELSE [st.enemies EXCEPT ![j] = enemy],
                       !.score = scoreAfterHit(@, enemy),
                       !.dom = IF enemy.health <= 0
                                 THEN Babylon_updateHUD(@, scoreAfterHit(st.score, enemy),
                                                        st.lives)
                                 ELSE @,
                       !.hits = Append(@, hit)],
                    i - 1)

\* updateGame(deltaTime)
Babylon_updateGame(deltaTime) ==
  LET p1 == Babylon_movePlayer(player, controls.keys, deltaTime)
      projectiles1 == Babylon_moveProjectiles(lasers, deltaTime)
      st1 == Babylon_moveEnemies(
               [enemies |-> enemies, lives |-> lives, score |-> score,
                gameState |-> gameState, dom |-> dom],
               Len(enemies), deltaTime)
      st2 == Babylon_collisions(
               [projectiles |-> projectiles1, enemies |-> st1.enemies,
                score |-> score, lives |-> st1.lives, dom |-> st1.dom, hits |-> <<>>],
               Len(projectiles1))
      timer == enemySpawnTimer + deltaTime
  IN /\ player' = p1
     /\ lasers' = st2.projectiles
     /\ lives' = st1.lives
     /\ gameState' = st1.gameState
     /\ score' = st2.score
     /\ dom' = st2.dom
     /\ collisions' = st2.hits
     /\ IF timer > 2000
          THEN /\ \E x \in SpawnXs :
                    enemies' = Append(st2.enemies,
                                      Babylon_createEnemy(nextId, Vec(x, 0, 5000)))
               /\ nextId' = nextId + 1
               /\ enemySpawnTimer' = 0
          ELSE /\ enemies' = st2.enemies
               /\ nextId' = nextId
               /\ enemySpawnTimer' = timer

\* one pass of the render loop
Babylon_renderLoop(deltaTime) ==
  /\ edition = "babylon"
  /\ ticks < MaxFrames
  /\ ticks' = ticks + 1
  /\ IF gameState = "playing" /\ player # null
       THEN /\ Babylon_updateGame(deltaTime)
            /\ lastOp' = "render"
       ELSE /\ lastOp' = "renderIdle"
            /\ UNCHANGED <<gameState, score, lives, player, enemies, enemySpawnTimer,
                           nextId, collisions, dom, lasers>>
  /\ UNCHANGED <<level, starts, edition, controls, now>>
  /\ UNCHANGED gameOnlyVars

----------------------------------------------------------------------------
(* The Babylon.js 2-D variant (stellar-voyage-babylonjs/src/main.js) *)

\* Speeds of this program are per frame, in hundredths of a unit; its
\* enemySpawnTimer counts frames.  The keys pressed are lower-case letters
\* and the space bar, which toLowerCase() leaves as they are.

\* the values 0.05 + Math.random() * 0.05 takes in createEnemy
EnemySpeeds == {5, 7}

Babylonjs_createPlayer ==
  [position |-> Vec(0, -1000, 0), speed |-> 30, bounds |-> [x |-> 1200, y |-> 1200]]

Babylonjs_createEnemy(id, x, speed) ==
  [id |-> id, position |-> Vec(x, 1500, 0), speed |-> speed]

Babylonjs_createLaser(id, p) ==
  [id |-> id, position |-> Vec(p.position.x, p.position.y + 100, 0), speed |-> 60]

Babylonjs_updateHUD(d, sc, lv, lvl) == [d EXCEPT !.score = sc, !.lives = lv, !.level = lvl]

Babylonjs_endGame(d, sc) ==
  [d EXCEPT !.finalScore = sc, !.gameOverScreen = "flex", !.gameOverShows = @ + 1]

\* the page when the script has run
BabylonjsLoaded ==
  /\ gameState = "menu"
  /\ score = 0
  /\ lives = 3
  /\ level = 1
  /\ difficulty = 1000
  /\ player = null
  /\ enemies = <<>>
  /\ obstacles = <<>>
  /\ enemySpawnTimer = 0
  /\ enemySpawnInterval = ENEMY_SPAWN_INTERVAL
  /\ obstacleSpawnTimer = 0
  /\ obstacleSpawnInterval = OBSTACLE_SPAWN_INTERVAL
  /\ difficultyTimer = 0
  /\ scene = {}
  /\ nextId = 1
  /\ collisions = <<>>
  /\ ticks = 0
  /\ starts = 0
  /\ shots = 0
  /\ keyEvents = 0
  /\ lastOp = "init"
  /\ edition = "babylonjs"
  /\ dom = Page("", "none")
  /\ mobileControls = null
  /\ controls = Controls
  /\ lasers = <<>>
  /\ now = 1000

\* the enemies met some hundred frames into play, oldest first: a slow one
\* and a faster one spawned 121 frames later that has caught up with it,
\* both a little more than two units above the ship
BabylonjsEnemyRows ==
  {<<>>,
   <<[x |-> 0, y |-> -620, speed |-> 5]>>,
   <<[x |-> 50, y |-> -621, speed |-> 7]>>,
   <<[x |-> 0, y |-> -620, speed |-> 5], [x |-> 50, y |-> -621, speed |-> 7]>>}

\* the page between two frames of the first session, with the last life or
\* all three left: the ship has moved up five frames' worth, no key is down
BabylonjsInPlay ==
  /\ gameState = "playing"
  /\ score = 0
  /\ lives \in {1, 3}
  /\ level = 1
  /\ difficulty = 1000
  /\ player = [Babylonjs_createPlayer EXCEPT !.position = Vec(0, -850, 0)]
  /\ obstacles = <<>>
  /\ enemySpawnTimer \in {0, 120}
  /\ enemySpawnInterval = ENEMY_SPAWN_INTERVAL
  /\ obstacleSpawnTimer = 0
  /\ obstacleSpawnInterval = OBSTACLE_SPAWN_INTERVAL
  /\ difficultyTimer = 0
  /\ scene = {}
  /\ collisions = <<>>
  /\ ticks = 0
  /\ starts = 1
  /\ shots = 0
  /\ keyEvents = 0
  /\ lastOp = "render"
  /\ edition = "babylonjs"
  /\ dom = Babylonjs_updateHUD(Page("none", "none"), score, lives, level)
  /\ mobileControls = null
  /\ controls = Controls
  /\ lasers = <<>>
  /\ now = 1000
  /\ \E row \in BabylonjsEnemyRows :
       /\ enemies = [i \in DOMAIN row |->
                       [Babylonjs_createEnemy(i, row[i].x, row[i].speed)
                          EXCEPT !.position = Vec(row[i].x, row[i].y, 0)]]
       /\ nextId = 1 + Len(row)

\* startGame, the click handler of start-btn and restart-btn
Babylonjs_startGame ==
  /\ edition = "babylonjs"
  /\ starts < MaxStarts
  /\ dom.startScreen # "none" \/ dom.gameOverScreen = "flex"
  /\ gameState' = "playing"
  /\ score' = 0
  /\ lives' = 3
  /\ level' = 1
  /\ enemies' = <<>>
  /\ lasers' = <<>>
  /\ player' = Babylonjs_createPlayer
  /\ dom' = Babylonjs_updateHUD([dom EXCEPT !.startScreen = "none",
                                            !.gameOverScreen = "none"], 0, 3, 1)
  /\ starts' = starts + 1
  /\ lastOp' = "startGame"
  /\ UNCHANGED <<enemySpawnTimer, nextId, collisions, ticks, edition, controls, now>>
  /\ UNCHANGED gameOnlyVars

\* the keydown and keyup listeners on window
Babylonjs_onKey(type, key) ==
  /\ edition = "babylonjs"
  /\ type = "keydown" => key \notin controls.pressed
  /\ type = "keyup" => key \in controls.pressed
  /\ controls' = [controls EXCEPT
                    !.pressed = IF type = "keydown" THEN @ \cup {key} ELSE @ \ {key},
                    !.keys = IF type = "keydown" THEN @ \cup {key} ELSE @ \ {key},
                    !.isShooting = IF key = " " THEN type = "keydown" ELSE @]
  /\ lastOp' = type
  /\ UNCHANGED <<gameState, score, lives, level, player, enemies, enemySpawnTimer,
                 nextId, collisions, ticks, starts, edition, dom, lasers, now>>
  /\ UNCHANGED gameOnlyVars

\* the touchstart and touchend listeners on the canvas
Babylonjs_onTouch(type) ==
  /\ edition = "babylonjs"
  /\ controls' = [controls EXCEPT !.isShooting = (type = "touchstart")]
  /\ lastOp' = type
  /\ UNCHANGED <<gameState, score, lives, level, player, enemies, enemySpawnTimer,
                 nextId, collisions, ticks, starts, edition, dom, lasers, now>>
  /\ UNCHANGED gameOnlyVars

\* the player movement of the frame callback
Babylonjs_movePlayer(p, keys) ==
  LET held(a, b) == a \in keys \/ b \in keys
      y == p.position.y + (IF held("w", "ArrowUp") THEN p.speed ELSE 0)
                        - (IF held("s", "ArrowDown") THEN p.speed ELSE 0)
      x == p.position.x - (IF held("a", "ArrowLeft") THEN p.speed ELSE 0)
                        + (IF held("d", "ArrowRight") THEN p.speed ELSE 0)
  IN [p EXCEPT !.position = Vec(Max(0 - p.bounds.x, Min(p.bounds.x, x)),
                                Max(0 - p.bounds.y, Min(p.bounds.y, y)), 0)]

\* the laser loop of the frame callback
Babylonjs_moveLasers(ls) ==
  LET moved == [i \in DOMAIN ls |-> [ls[i] EXCEPT !.position.y = @ + ls[i].speed]]
      onScreen(laser) == ~ (laser.position.y > 2000)
  IN SelectSeq(moved, onScreen)

\* the enemy loop of the frame callback
Babylonjs_moveEnemies(es) ==
  LET moved == [i \in DOMAIN es |-> [es[i] EXCEPT !.position.y = @ - es[i].speed]]
      onScreen(enemy) == ~ (enemy.position.y < -2000)
  IN SelectSeq(moved, onScreen)

\* the laser-enemy scan of checkCollisions from laser i down; st.hits lists
\* the hits in the order they are made
RECURSIVE Babylonjs_laserEnemy(_, _)
Babylonjs_laserEnemy(st, i) ==
  IF i = 0 THEN st
  ELSE LET laser == st.lasers[i]
           j == enemyHit(laser.position, st.enemies)
       IN IF j = 0 THEN Babylonjs_laserEnemy(st, i - 1)
          ELSE Babylonjs_laserEnemy(
                 [st EXCEPT
                    !.lasers = Splice(st.lasers, i),
                    !.enemies = Splice(st.enemies, j),
                    !.score = @ + 10,
                    !.dom = Babylonjs_updateHUD(@, st.score + 10, st.lives, st.level),
                    !.hits = Append(@, [projectile |-> laser, enemy |-> st.enemies[j]])],
                 i - 1)

\* the player-enemy scan of checkCollisions from enemy i down
RECURSIVE Babylonjs_playerEnemy(_, _, _)
Babylonjs_playerEnemy(st, p, i) ==
  IF i = 0 THEN st
  ELSE IF CloserThan(p.position, st.enemies[i].position, 200)
         THEN LET lv == st.lives - 1
                  hud == Babylonjs_updateHUD(st.dom, st.score, lv, st.level)
              IN Babylonjs_playerEnemy(
                   [st EXCEPT !.enemies = Splice(st.enemies, i),
                              !.lives = lv,
                              !.gameState = IF lv <= 0 THEN "gameover" ELSE @,
                              !.dom = IF lv <= 0 THEN Babylonjs_endGame(hud, st.score)
                                      ELSE hud],
                   p, i - 1)
         ELSE Babylonjs_playerEnemy(st, p, i - 1)

\* checkCollisions()
Babylonjs_checkCollisions(st, p) ==
  LET st1 == Babylonjs_laserEnemy(st, Len(st.lasers))
  IN IF p = null THEN st1 ELSE Babylonjs_playerEnemy(st1, p, Len(st1.enemies))

\* the callback of scene.registerBeforeRender; frameTime is the time Date.now()
\* has advanced since the frame before
Babylonjs_beforeRender(frameTime) ==
  /\ edition = "babylonjs"
  /\ ticks < MaxFrames
  /\ ticks' = ticks + 1
  /\ now' = now + frameTime
  /\ IF gameState # "playing"
       THEN /\ lastOp' = "renderIdle"
            /\ UNCHANGED <<gameState, score, lives, player, enemies, enemySpawnTimer,
                           nextId, collisions, dom, lasers, controls>>
       ELSE LET p1 == Babylonjs_movePlayer(player, controls.keys)
                fires == controls.isShooting /\ now' - controls.lastShootTime > 250
                fired == IF fires THEN Append(lasers, Babylonjs_createLaser(nextId, p1))
                         ELSE lasers
                id1 == IF fires THEN nextId + 1 ELSE nextId
                spawns == enemySpawnTimer + 1 > 120
            IN /\ lastOp' = "render"
               /\ player' = p1
               /\ controls' = [controls EXCEPT
                                 !.lastShootTime = IF fires THEN now' ELSE @]
               /\ enemySpawnTimer' = IF spawns THEN 0 ELSE enemySpawnTimer + 1
               /\ nextId' = IF spawns THEN id1 + 1 ELSE id1
               /\ \E spawned \in IF spawns
                                   THEN {<<Babylonjs_createEnemy(id1, x, speed)>> :
                                           x \in SpawnXs, speed \in EnemySpeeds}
                                   ELSE {<<>>} :
                    LET st == Babylonjs_checkCollisions(
                                [lasers |-> Babylonjs_moveLasers(fired),
                                 enemies |-> Babylonjs_moveEnemies(enemies) \o spawned,
                                 score |-> score, lives |-> lives, level |-> level,
                                 gameState |-> gameState, dom |-> dom, hits |-> <<>>],
                                p1)
                    IN /\ lasers' = st.lasers
                       /\ enemies' = st.enemies
                       /\ score' = st.score
                       /\ lives' = st.lives
                       /\ gameState' = st.gameState
                       /\ dom' = st.dom
                       /\ collisions' = st.hits
  /\ UNCHANGED <<level, starts, edition>>
  /\ UNCHANGED gameOnlyVars

----------------------------------------------------------------------------
(* The two Babylon programs *)

InitBabylon == BabylonLoaded \/ BabylonInPlay \/ BabylonjsLoaded \/ BabylonjsInPlay

NextBabylon ==
  \/ Babylon_startGame
  \/ \E type \in {"keydown", "keyup"}, key \in BabylonKeys : Babylon_onKeyboard(type, key)
  \/ Babylon_onPointerDown
  \/ \E deltaTime \in BabylonDeltaTimes : Babylon_renderLoop(deltaTime)
  \/ Babylonjs_startGame
  \/ \E type \in {"keydown", "keyup"}, key \in BabylonKeys : Babylonjs_onKey(type, key)
  \/ \E type \in {"touchstart", "touchend"} : Babylonjs_onTouch(type)
  \/ \E frameTime \in BabylonDeltaTimes : Babylonjs_beforeRender(frameTime)

SpecBabylon == InitBabylon /\ [][NextBabylon]_vars

----------------------------------------------------------------------------
(* The score in the three programs *)

\* a playing Three.js session between two frames, as in the last tick of a
\* session, with or without a unit asteroid drifting into the line of fire
\* eight units ahead
InitScoring ==
  /\ NoPage
  /\ gameState = "playing"
  /\ score = 0
  /\ lives \in 1..INITIAL_LIVES
  /\ level = 1
  /\ difficulty = 1000
  /\ player = Player_shoot(Player(1), 2)
  /\ enemySpawnTimer = 0
  /\ enemySpawnInterval = ENEMY_SPAWN_INTERVAL
  /\ obstacleSpawnTimer = 0
  /\ obstacleSpawnInterval = OBSTACLE_SPAWN_INTERVAL
  /\ difficultyTimer = 0
  /\ collisions = EmptyCollisions
  /\ ticks = Len(FrameSeq) - 10
  /\ starts = 1
  /\ shots = 1
  /\ keyEvents = 0
  /\ lastOp = "shoot"
  /\ \E around \in SeqsUpTo(LastTickEnemies, MaxContactEntities), asteroids \in 0..1 :
       /\ enemies = [i \in DOMAIN around |->
                       [Enemy(2 + i, around[i].position) EXCEPT !.health = around[i].health]]
       /\ obstacles = [i \in 1..asteroids |->
                         Obstacle(2 + Len(around) + i, Vec(0, 80, 6), 10,
                                  Vec(0, 0, 0 - 30))]
       /\ nextId = 3 + Len(around) + asteroids
       /\ scene = 1..(2 + Len(around) + asteroids)

InitEditions == InitScoring \/ InitBabylon

NextEditions ==
  \/ \E deltaTime \in DeltaTimes : Update(deltaTime)
  \/ Start
  \/ Babylon_startGame
  \/ \E type \in {"keydown", "keyup"}, key \in BabylonKeys : Babylon_onKeyboard(type, key)
  \/ Babylon_onPointerDown
  \/ \E deltaTime \in BabylonDeltaTimes : Babylon_renderLoop(deltaTime)
  \/ Babylonjs_startGame
  \/ \E type \in {"keydown", "keyup"}, key \in BabylonKeys : Babylonjs_onKey(type, key)
  \/ \E type \in {"touchstart", "touchend"} : Babylonjs_onTouch(type)
  \/ \E frameTime \in BabylonDeltaTimes : Babylonjs_beforeRender(frameTime)

SpecEditions == InitEditions /\ [][NextEditions]_vars

----------------------------------------------------------------------------
(* Properties of the session *)

\* C1: whenever Game.update has returned with lives <= 0 the phase is
\* gameOver; in particular an update that starts at one life with one enemy
\* touching the player ends with lives = 0 and phase gameOver.
GameOverWhenLivesExhausted == lives <= 0 => gameState = "gameOver"

\* the last life was lost in an update whose batch held exactly one
\* player-enemy contact and no player-obstacle contact
LastLifeLostToOneEnemy ==
  /\ lastOp = "update"
  /\ lives = 0
  /\ gameState = "gameOver"
  /\ Len(collisions.playerEnemyCollisions) = 1
  /\ Len(collisions.playerObstacleCollisions) = 0

\* C2: Game.lives is never negative: every decrement is floored at 0, however
\* many enemies and obstacles touch the player in one tick.
LivesNeverNegative == lives >= 0

\* C3: Game.start, from any phase and with any entities present, leaves
\* score 0, lives 3, level 1, difficulty 1, the three timers 0, no enemies, no
\* obstacles, one freshly created Player without projectiles and phase
\* playing; the meshes of the previous Player and of its projectiles (and of
\* every enemy and obstacle) are gone from the scene.
StartResetsSession ==
  [][starts' = starts + 1 =>
       /\ score' = 0
       /\ lives' = 3
       /\ level' = 1
       /\ difficulty' = 1000
       /\ enemySpawnTimer' = 0
       /\ obstacleSpawnTimer' = 0
       /\ difficultyTimer' = 0
       /\ enemies' = <<>>
       /\ obstacles' = <<>>
       /\ player' # null
       /\ player'.id \notin scene
       /\ player'.projectiles = <<>>
       /\ player'.position = ZeroVec
       /\ player'.keys = {}
       /\ scene' = {player'.id}
       /\ player # null =>
            scene' \cap ({player.id} \cup {q.id : q \in Range(player.projectiles)}) = {}
       /\ gameState' = "playing"]_vars

\* a second Game.start has just returned; the batch of the session it replaced
\* shows that enemies were touching the previous player
RestartedOverEntities ==
  /\ lastOp = "start"
  /\ starts = 2
  /\ collisions.playerEnemyCollisions # <<>>
  /\ scene = {player.id}

\* C4: Game.update called while the phase is menu or gameOver changes none of
\* score, lives, level, difficulty, the timers and intervals, the enemy and
\* obstacle collections, the player with its projectiles, the scene, the phase.
UpdateOutsidePlayingIsNoOp ==
  [][lastOp' \in {"update", "updateReturned"} /\ gameState # "playing" =>
       UNCHANGED <<gameState, score, lives, level, difficulty, player, enemies, obstacles,
                   enemySpawnTimer, enemySpawnInterval, obstacleSpawnTimer,
                   obstacleSpawnInterval, difficultyTimer, scene, nextId>>]_vars

\* Game.update has been called on a session that is over and holds entities
UpdateCalledWhenOver ==
  /\ lastOp = "updateReturned"
  /\ gameState = "gameOver"
  /\ enemies # <<>>
  /\ player # null

\* C5: the phase moves only menu -> playing (by start), playing -> gameOver
\* (by update, with lives <= 0) and gameOver -> playing (by start); a session
\* that is over stays over under update calls, and no step leads to menu.
PhaseTransitions ==
  [][gameState' # gameState =>
       \/ gameState = "menu" /\ gameState' = "playing" /\ lastOp' = "start"
       \/ gameState = "playing" /\ gameState' = "gameOver" /\ lastOp' = "update"
                                /\ lives' <= 0
       \/ gameState = "gameOver" /\ gameState' = "playing" /\ lastOp' = "start"]_vars

\* every transition taken: a second session, started before the tick from
\* which a running game is restarted and so started from gameOver, is ticking
SecondSessionRunning ==
  /\ starts = 2
  /\ ticks < RestartFrom
  /\ gameState = "playing"
  /\ lastOp = "update"

\* the number of projectile-enemy hit records of a batch that name enemy id
HitsOnEnemy(batch, id) ==
  Cardinality({k \in DOMAIN batch.projectileEnemyHits :
                 batch.projectileEnemyHits[k].enemy = id})

\* C6: dead entities leave their collection in the tick they die: when
\* Game.update has returned, no enemy with health <= 0 is in Game.enemies (so
\* that Enemy.update is never called on one).
NoDeadEnemyAfterUpdate ==
  lastOp = "update" => \A i \in DOMAIN enemies : enemies[i].health > 0

\* C8: an enemy of health 2 takes exactly two registered hits: the update in
\* which its first hit registers leaves it in Game.enemies with health 1, and
\* the update in which its second hit registers leaves it out of Game.enemies
\* with the score raised by its 100 points.
TwoHitsRemoveAndAward ==
  [][lastOp' = "update" =>
       \A i \in DOMAIN enemies :
         LET e == enemies[i]
             hits == HitsOnEnemy(collisions', e.id)
         IN /\ (e.health = 2 /\ hits = 1) =>
                 \E j \in DOMAIN enemies' :
                   enemies'[j].id = e.id /\ enemies'[j].health = 1
            /\ (e.health > 0 /\ hits > 0 /\ e.health - hits <= 0) =>
                 /\ e.health - hits = 0
                 /\ \A j \in DOMAIN enemies' : enemies'[j].id # e.id
                 /\ score' >= score + 100]_vars

\* C9: Enemy.health is never below 0, also when several projectiles hit the
\* same enemy in one tick.
EnemyHealthNeverNegative == \A i \in DOMAIN enemies : enemies[i].health >= 0

\* C10: over every step, every enemy's health is at most what it was before
\* the step and at most its maxHealth, which is 2.
EnemyHealthOnlyDecreases ==
  [][\A j \in DOMAIN enemies' :
       /\ enemies'[j].maxHealth = 2
       /\ enemies'[j].health <= enemies'[j].maxHealth
       /\ \A i \in DOMAIN enemies :
            enemies[i].id = enemies'[j].id => enemies'[j].health <= enemies[i].health]_vars

\* an enemy that has taken its first hit in the last update is in Game.enemies
EnemyDamaged ==
  /\ lastOp = "update"
  /\ \E i \in DOMAIN enemies :
       /\ enemies[i].health = 1
       /\ HitsOnEnemy(collisions, enemies[i].id) = 1

\* the enemies (by index) within collision distance of the projectile at index i
EnemiesInRange(i) ==
  {j \in DOMAIN enemies : checkProjectileEnemyCollision(player.projectiles[i], enemies[j])}

\* C7: for every projectile within collision distance of one or more enemies,
\* checkAllCollisions reports exactly one projectile-enemy hit, and the enemy
\* it names is the one the reverse scan meets first, the last-indexed in range.
OneHitPerProjectile ==
  lastOp = "checkAllCollisions" =>
    \A i \in DOMAIN player.projectiles :
      LET hits == collisions.projectileEnemyHits
          mine == {k \in DOMAIN hits : hits[k].projectileIndex = i}
      IN EnemiesInRange(i) # {} =>
           /\ Cardinality(mine) = 1
           /\ \A k \in mine :
                /\ hits[k].enemyIndex \in EnemiesInRange(i)
                /\ \A j \in EnemiesInRange(i) : j <= hits[k].enemyIndex

\* the enemies (by index) closer to the player than 1.5 + 1.2 units
EnemiesTouching ==
  {i \in DOMAIN enemies :
     SquaredNorm(Vec(player.position.x - enemies[i].position.x,
                     player.position.y - enemies[i].position.y,
                     player.position.z - enemies[i].position.z)) < 27 * 27}

\* the obstacles (by index) closer to the player than 1.5 + size * 1.5 units
ObstaclesTouching ==
  {i \in DOMAIN obstacles :
     100 * SquaredNorm(Vec(player.position.x - obstacles[i].position.x,
                           player.position.y - obstacles[i].position.y,
                           player.position.z - obstacles[i].position.z))
       < (150 + 15 * obstacles[i].size) * (150 + 15 * obstacles[i].size)}

\* C11: one call of Game.handleCollisions lowers lives by exactly the number
\* of enemies plus the number of obstacles within contact distance of the
\* player, one life each and without a cap.
LivesDropByContacts ==
  [][lastOp' = "handleCollisions" =>
       lives - lives' = Cardinality(EnemiesTouching) + Cardinality(ObstaclesTouching)]_vars

\* handleCollisions has run with two enemies and an obstacle touching a player
\* that had one life left
ThreeContactsOnLastLife ==
  /\ lastOp = "handleCollisions"
  /\ Len(collisions.playerEnemyCollisions) = 2
  /\ Len(collisions.playerObstacleCollisions) = 1
  /\ lives = 0 - 2

\* C12: after every Player.update every projectile still in
\* player.projectiles is younger than its lifetime of 5 s and no farther than
\* 500 units from the origin; one that is not has been removed in that update.
ProjectilesAliveAndInBounds ==
  lastOp \in {"Player.update", "Player.update(0)", "update"} =>
    \A i \in DOMAIN player.projectiles :
      /\ player.projectiles[i].age < 5000
      /\ SquaredNorm(player.projectiles[i].position) <= 5000 * 5000

\* two projectiles were fired; Player.update has removed one of them and kept
\* the other in flight
ProjectileExpired ==
  /\ lastOp = "Player.update"
  /\ shots = 2
  /\ Len(player.projectiles) = 1
  /\ player.projectiles[1].age > 0

ZeroFrameKeepsPositionAndVelocity ==
  [][lastOp' = "Player.update(0)" =>
       /\ player'.position = player.position
       /\ player'.velocity = player.velocity
       /\ Len(player'.projectiles) = Len(player.projectiles)
       /\ \A i \in DOMAIN player.projectiles :
            /\ player'.projectiles[i].position = player.projectiles[i].position
            /\ player'.projectiles[i].velocity = player.projectiles[i].velocity]_vars

\* C15: a call of checkAllCollisions changes neither the player, its
\* projectiles, the enemies and their health, the obstacles, the score nor
\* the lives; damage, removal, score and lives change in handleCollisions.
DetectorIsPure ==
  [][lastOp' = "checkAllCollisions" =>
       UNCHANGED <<player, enemies, obstacles, score, lives, scene, gameState>>]_vars

\* the detector has returned a batch with a projectile-enemy hit, a
\* projectile-obstacle hit and a player contact; the projectiles, the enemy's
\* health, the obstacles, the score and the lives are as they were
BatchReportedNothingApplied ==
  /\ lastOp = "checkAllCollisions"
  /\ collisions.projectileEnemyHits # <<>>
  /\ collisions.projectileObstacleHits # <<>>
  /\ collisions.playerEnemyCollisions # <<>>
  /\ Len(player.projectiles) = shots
  /\ \A i \in DOMAIN enemies : enemies[i].health = 2
  /\ score = 0
  /\ lives = 3

\* the squared distance between two positions
SquaredDistance(p1, p2) == SquaredNorm(Vec(p1.x - p2.x, p1.y - p2.y, p1.z - p2.z))

\* C16: the batch of checkAllCollisions holds a record for a pair exactly
\* when the distance of the two is strictly less than the sum of their radii
\* (projectile 0.3, enemy 1.2, player 1.5, obstacle size * 1.5); a pair at
\* exactly that distance is not reported.
HitRecordsIffWithinRadii ==
  lastOp = "checkAllCollisions" =>
    /\ \A i \in DOMAIN player.projectiles : \A j \in DOMAIN enemies :
         (\E k \in DOMAIN collisions.projectileEnemyHits :
            /\ collisions.projectileEnemyHits[k].projectileIndex = i
            /\ collisions.projectileEnemyHits[k].enemyIndex = j)
         <=> SquaredDistance(player.projectiles[i].position, enemies[j].position) < 15 * 15
    /\ \A i \in DOMAIN player.projectiles : \A j \in DOMAIN obstacles :
         (\E k \in DOMAIN collisions.projectileObstacleHits :
            /\ collisions.projectileObstacleHits[k].projectileIndex = i
            /\ collisions.projectileObstacleHits[k].obstacleIndex = j)
         <=> 100 * SquaredDistance(player.projectiles[i].position, obstacles[j].position)
               < (30 + 15 * obstacles[j].size) * (30 + 15 * obstacles[j].size)
    /\ \A j \in DOMAIN enemies :
         (\E k \in DOMAIN collisions.playerEnemyCollisions :
            collisions.playerEnemyCollisions[k].enemyIndex = j)
         <=> SquaredDistance(player.position, enemies[j].position) < 27 * 27
    /\ \A j \in DOMAIN obstacles :
         (\E k \in DOMAIN collisions.playerObstacleCollisions :
            collisions.playerObstacleCollisions[k].obstacleIndex = j)
         <=> 100 * SquaredDistance(player.position, obstacles[j].position)
               < (150 + 15 * obstacles[j].size) * (150 + 15 * obstacles[j].size)

\* a pair of each kind sits at exactly the sum of its radii and the batch is empty
BoundaryPairsNotReported ==
  /\ lastOp = "checkAllCollisions"
  /\ \E i \in DOMAIN player.projectiles : \E j \in DOMAIN enemies :
       SquaredDistance(player.projectiles[i].position, enemies[j].position) = 15 * 15
  /\ \E i \in DOMAIN player.projectiles : \E j \in DOMAIN obstacles :
       100 * SquaredDistance(player.projectiles[i].position, obstacles[j].position)
         = (30 + 15 * obstacles[j].size) * (30 + 15 * obstacles[j].size)
  /\ \E j \in DOMAIN enemies :
       SquaredDistance(player.position, enemies[j].position) = 27 * 27
  /\ \E j \in DOMAIN obstacles :
       100 * SquaredDistance(player.position, obstacles[j].position)
         = (150 + 15 * obstacles[j].size) * (150 + 15 * obstacles[j].size)
  /\ collisions = EmptyCollisions

\* C17: a projectile is created only when shootCooldown <= 0, and the
\* creation sets shootCooldown to 0.2 s; so when a projectile is created every
\* earlier projectile of the player has aged at least 0.2 s, the sum of the
\* frame times since its own creation, however often shoot() was called.
ShotsRespectCooldown ==
  [][Len(player'.projectiles) > Len(player.projectiles) =>
       /\ player.shootCooldown <= 0
       /\ player'.shootCooldown = 200
       /\ \A i \in DOMAIN player.projectiles : player.projectiles[i].age >= 200]_vars

\* a second projectile has been created at the moment the first one is 0.2 s old
SecondShotAfterCooldown ==
  /\ lastOp \in {"Player.shoot", "MobileControls.update"}
  /\ Len(player.projectiles) = 2
  /\ player.projectiles[1].age = 200
  /\ player.projectiles[2].age = 0
  /\ player.shootCooldown = 200

\* the enemies of the next state that were constructed by this step
SpawnedEnemies == {j \in DOMAIN enemies' : enemies'[j].id \notin scene}

\* the obstacles of the next state that were constructed by this step
SpawnedObstacles == {j \in DOMAIN obstacles' : obstacles'[j].id \notin scene}

\* C18: in Game.update each spawn timer accumulates the frame time; one call
\* spawns at most one enemy and at most one obstacle however long the frame,
\* a spawn happens exactly when the accumulated timer exceeds the interval in
\* force, and the timer is 0 right after a spawn.
SpawnTimersGateSpawns ==
  [][lastOp' = "update" =>
       \E dt \in FrameTimes(ticks) :
         /\ difficultyTimer' \in {difficultyTimer + dt, 0}
         /\ Cardinality(SpawnedEnemies) <= 1
         /\ Cardinality(SpawnedObstacles) <= 1
         /\ Cardinality(SpawnedEnemies) = 1 <=> enemySpawnTimer + dt > enemySpawnInterval
         /\ Cardinality(SpawnedObstacles) = 1
              <=> obstacleSpawnTimer + dt > obstacleSpawnInterval
         /\ enemySpawnTimer' = IF Cardinality(SpawnedEnemies) = 1 THEN 0
                               ELSE enemySpawnTimer + dt
         /\ obstacleSpawnTimer' = IF Cardinality(SpawnedObstacles) = 1 THEN 0
                                  ELSE obstacleSpawnTimer + dt]_vars

\* an update whose frame is longer than both intervals has spawned one enemy
\* and one obstacle and left both timers at 0
LongFrameSpawnsOneOfEach ==
  /\ lastOp = "update"
  /\ ticks = 1
  /\ difficultyTimer > 3000
  /\ Len(enemies) = 1
  /\ Len(obstacles) = 1
  /\ enemySpawnTimer = 0
  /\ obstacleSpawnTimer = 0

\* C19: over the Game.increaseDifficulty calls of a session both spawn
\* intervals never increase and never go below their floors (0.8 s and
\* 0.5 s), and an interval that has reached its floor stays there.
SpawnIntervalsShrinkToFloor ==
  [][lastOp' = "increaseDifficulty" =>
       /\ enemySpawnInterval' <= enemySpawnInterval
       /\ obstacleSpawnInterval' <= obstacleSpawnInterval
       /\ enemySpawnInterval' >= 800
       /\ obstacleSpawnInterval' >= 500
       /\ enemySpawnInterval = 800 => enemySpawnInterval' = 800
       /\ obstacleSpawnInterval = 500 => obstacleSpawnInterval' = 500]_vars

\* the ids of the projectiles named in a hit record of a batch
ProjectilesNamed(batch) ==
  {batch.projectileEnemyHits[k].projectile : k \in DOMAIN batch.projectileEnemyHits}
  \cup {batch.projectileObstacleHits[k].projectile : k \in DOMAIN batch.projectileObstacleHits}

\* the ids of the obstacles named in a projectile-obstacle record of a batch
ObstaclesNamed(batch) ==
  {batch.projectileObstacleHits[k].obstacle : k \in DOMAIN batch.projectileObstacleHits}

\* after is before without the elements whose id is in named, in the same order
RemovedExactly(before, after, named) ==
  /\ {after[a].id : a \in DOMAIN after} = {before[i].id : i \in DOMAIN before} \ named
  /\ Len(after) = Cardinality({before[i].id : i \in DOMAIN before} \ named)
  /\ \A a \in DOMAIN after : \E i \in DOMAIN before : before[i] = after[a]
  /\ \A a, b \in DOMAIN after :
       a < b => \E i, j \in DOMAIN before :
                  i < j /\ before[i].id = after[a].id /\ before[j].id = after[b].id

\* C20: Game.handleCollisions removes from player.projectiles exactly the
\* projectiles named in a hit record of its batch, each once however many
\* records name it, and keeps the others in their order; likewise it removes
\* from Game.obstacles exactly the obstacles named in a projectile-obstacle hit.
HitProjectilesAndObstaclesRemoved ==
  [][lastOp' = "handleCollisions" =>
       /\ RemovedExactly(player.projectiles, player'.projectiles,
                         ProjectilesNamed(collisions'))
       /\ RemovedExactly(obstacles, obstacles', ObstaclesNamed(collisions'))]_vars

\* handleCollisions has removed a projectile that two records named and kept
\* the other one, and has removed an obstacle and kept another
TwiceNamedRemovedOnce ==
  /\ lastOp = "handleCollisions"
  /\ shots = 2
  /\ Len(player.projectiles) = 1
  /\ Len(obstacles) = 1
  /\ Len(collisions.projectileEnemyHits) = 1
  /\ Len(collisions.projectileObstacleHits) = 1
  /\ collisions.projectileEnemyHits[1].projectile
       = collisions.projectileObstacleHits[1].projectile

\* C21: every enemy and every obstacle that leaves the world bounds is
\* destroyed and removed from its collection: when Game.update has returned,
\* no enemy of Game.enemies and no obstacle of Game.obstacles is farther than
\* 600 units from the origin.
OutOfBoundsEntitiesRemoved ==
  lastOp = "update" =>
    /\ \A i \in DOMAIN enemies :
         ~FartherThan(enemies[i].position, ZeroVec, OBSTACLE_MAX_DISTANCE)
    /\ \A i \in DOMAIN obstacles :
         ~FartherThan(obstacles[i].position, ZeroVec, OBSTACLE_MAX_DISTANCE)

\* C23: contact with the player removes neither the touching enemy nor the
\* touching obstacle and there is no cooldown: every update in which entities
\* are within contact distance costs one life for each of them, tick after
\* tick, and leaves them in their collections (an obstacle goes only when a
\* projectile hit it in the same tick).
ContactCostsALifeEveryTick ==
  [][lastOp' = "update" =>
       /\ \A k \in DOMAIN collisions'.playerEnemyCollisions :
            \E j \in DOMAIN enemies' :
              enemies'[j].id = collisions'.playerEnemyCollisions[k].enemy
       /\ \A k \in DOMAIN collisions'.playerObstacleCollisions :
            \/ \E j \in DOMAIN obstacles' :
                 obstacles'[j].id = collisions'.playerObstacleCollisions[k].obstacle
            \/ collisions'.playerObstacleCollisions[k].obstacle
                 \in ObstaclesNamed(collisions')
       /\ lives' = lives - Len(collisions'.playerEnemyCollisions)
                         - Len(collisions'.playerObstacleCollisions)
       /\ \A k \in DOMAIN collisions.playerEnemyCollisions :
            (lastOp = "update"
             /\ \E n \in DOMAIN collisions'.playerEnemyCollisions :
                  collisions'.playerEnemyCollisions[n].enemy
                    = collisions.playerEnemyCollisions[k].enemy)
            => lives' < lives]_vars

\* one enemy and nothing else has been next to the player for three ticks: it
\* has taken all three lives and is still among the enemies
OneEnemyThreeTicksThreeLives ==
  /\ gameState = "gameOver"
  /\ lives = 0
  /\ ticks = Len(FrameSeq) - 10 + INITIAL_LIVES
  /\ nextId = 3
  /\ Len(enemies) = 1
  /\ Len(collisions.playerEnemyCollisions) = 1
  /\ collisions.playerEnemyCollisions[1].enemy = enemies[1].id

\* C25: in Game.handleCollisions each obstacle destroyed by projectiles adds
\* the bonus of 10 to score exactly once, however many projectiles hit it in
\* the tick: the score rises by 10 for each obstacle the call removes.
ObstacleBonusOncePerObstacle ==
  [][lastOp' = "handleCollisions" =>
       score' = score + OBSTACLE_SCORE * (Len(obstacles) - Len(obstacles'))]_vars

\* the enemies (by index) at health <= 0 that the step takes out of Game.enemies
DeadEnemiesRemoved ==
  {i \in DOMAIN enemies :
     /\ enemies[i].health <= 0
     /\ \A j \in DOMAIN enemies' : enemies'[j].id # enemies[i].id}

\* C26: every enemy whose health has reached <= 0 through projectile hits
\* adds 100 to score, also when it was killed in the tick that ends the
\* session: no step takes a dead enemy out of Game.enemies without adding
\* its 100 points.
EveryKillScores ==
  [][score' >= score + ENEMY_SCORE * Cardinality(DeadEnemiesRemoved)]_vars

\* C27: a restarted session is indistinguishable from a first one: when
\* Game.start has returned, every field Game.update reads has the value the
\* constructor gave it, in particular enemySpawnInterval = 2 and
\* obstacleSpawnInterval = 1.5.
RestartRestoresConstructorValues ==
  lastOp = "start" =>
    /\ enemySpawnInterval = ENEMY_SPAWN_INTERVAL
    /\ obstacleSpawnInterval = OBSTACLE_SPAWN_INTERVAL
    /\ difficulty = 1000
    /\ level = 1
    /\ score = 0
    /\ lives = INITIAL_LIVES
    /\ enemySpawnTimer = 0
    /\ obstacleSpawnTimer = 0
    /\ difficultyTimer = 0
    /\ enemies = <<>>
    /\ obstacles = <<>>

\* C22: in gameLoop the HUD shows the Game's score, lives and level after
\* every update; each transition of the session to game over brings the
\* game-over screen up exactly once, with the final score equal to Game.score
\* at the transition, and nothing else brings it up.
HudAndGameOverScreenFollowTheGame ==
  [][/\ lastOp' \in {"update", "updateReturned"} =>
          /\ dom'.score = score'
          /\ dom'.lives = lives'
          /\ dom'.level = level'
     /\ (gameState # "gameOver" /\ gameState' = "gameOver") =>
          /\ dom'.gameOverShows = dom.gameOverShows + 1
          /\ dom'.gameOverScreen = "flex"
          /\ dom'.finalScore = score'
     /\ dom'.gameOverShows # dom.gameOverShows =>
          (gameState # "gameOver" /\ gameState' = "gameOver")]_vars

\* the second session has ended with a kill scored: the game-over screen has
\* come up for the second time and shows the 100 points the HUD shows
SecondGameOverShown ==
  /\ gameState = "gameOver"
  /\ starts = 2
  /\ dom.gameOverShows = 2
  /\ dom.gameOverScreen = "flex"
  /\ dom.finalScore = ENEMY_SCORE
  /\ dom.score = ENEMY_SCORE
  /\ lastOp = "updateReturned"

\* C28: once startGame has created the Game and the MobileControls, the
\* player that MobileControls.update reads and writes on a touch device is
\* the Game's current player: it is not null and it is not a player that an
\* earlier Game.start has destroyed.
MobileControlsHoldCurrentPlayer ==
  (mobileControls # null /\ mobileControls.isMobile) =>
    /\ mobileControls.player # null
    /\ player # null
    /\ mobileControls.player = player.id

\* C24: in both Babylon programs, in every frame that runs the collision
\* scan, no laser or projectile is in two hits; each hit is on an enemy
\* closer than 1.5 to the laser, and no enemy of a higher index that was in
\* the array when the laser was tested (one that survived the frame, or one
\* destroyed by a later hit) is that close; the laser is gone from the array
\* after the frame; and the score grows by exactly 10 for every enemy a hit
\* destroyed.  In part_000 the enemy spawned at the end of the frame is not
\* scanned.
EachLaserHitsTheLastEnemyInRange ==
  [][(edition \in {"babylon", "babylonjs"} /\ lastOp' = "render") =>
       LET hits == collisions'
           destroyed == {hits[a].enemy.id : a \in DOMAIN hits}
                          \ {enemies'[i].id : i \in DOMAIN enemies'}
       IN /\ \A a, b \in DOMAIN hits :
               hits[a].projectile.id = hits[b].projectile.id => a = b
          /\ \A a \in DOMAIN hits :
               LET laser == hits[a].projectile
                   enemy == hits[a].enemy
               IN /\ CloserThan(laser.position, enemy.position, 150)
                  /\ \A i \in DOMAIN lasers' : lasers'[i].id # laser.id
                  /\ \A i \in DOMAIN enemies' :
                       (/\ enemies'[i].id > enemy.id
                        /\ edition = "babylon" => enemies'[i].id < nextId)
                         => ~ CloserThan(laser.position, enemies'[i].position, 150)
                  /\ \A b \in DOMAIN hits :
                       (b > a /\ hits[b].enemy.id > enemy.id)
                         => ~ CloserThan(laser.position, hits[b].enemy.position, 150)
          /\ score' = score + 10 * Cardinality(destroyed)]_vars

\* a frame of the 2-D variant in which one laser was closer than 1.5 to two
\* enemies: it destroyed the one of the higher index for 10 points, and the
\* other one is still there
LaserInRangeOfTwoEnemiesHitTheLast ==
  /\ edition = "babylonjs"
  /\ lastOp = "render"
  /\ Len(collisions) = 1
  /\ score = 10
  /\ \E i \in DOMAIN enemies :
       /\ enemies[i].id < collisions[1].enemy.id
       /\ CloserThan(collisions[1].projectile.position, enemies[i].position, 150)


\* C29: in part_000, whenever updateGame has run, every key its keys map
\* holds as down is down on the keyboard: the last event of that key was a
\* key-down, also when the key was released during the menu or after a game
\* over and a new session has been started since.
HeldKeysAreDownOnTheKeyboard ==
  (edition = "babylon" /\ lastOp = "render") => controls.keys \subseteq controls.pressed

\* C30: in each of the three programs the score is at all times a
\* non-negative multiple of 10, a start sets it to 0, and every other step
\* leaves it alone or raises it: a Game.update of the Three.js edition by 100
\* for each dead enemy it removes and by 10 for each projectile-obstacle hit
\* of its batch, a frame of a Babylon program by 10 for each enemy a hit
\* destroyed.
ScoreGrowsByKillsAndHits ==
  [][/\ score' >= 0
     /\ score' % 10 = 0
     /\ edition = "three" =>
          IF lastOp' = "start" THEN score' = 0
          ELSE IF lastOp' = "update"
            THEN score' = score + ENEMY_SCORE * Cardinality(DeadEnemiesRemoved)
                            + OBSTACLE_SCORE * Len(collisions'.projectileObstacleHits)
            ELSE score' = score
     /\ edition \in {"babylon", "babylonjs"} =>
          IF lastOp' = "startGame" THEN score' = 0
          ELSE IF lastOp' = "render"
            THEN score' = score + 10 * Cardinality(
                                        {collisions'[a].enemy.id : a \in DOMAIN collisions'}
                                          \ {enemies'[i].id : i \in DOMAIN enemies'})
            ELSE score' = score]_vars

\* a Three.js session that has scored an asteroid and a kill: 10 for the
\* hit on the asteroid and 100 for the dead enemy the last update removed
AsteroidAndKillScored ==
  /\ edition = "three"
  /\ lastOp = "update"
  /\ gameState = "playing"
  /\ score = ENEMY_SCORE + OBSTACLE_SCORE
  /\ enemies = <<>>
  /\ obstacles = <<>>

====
